---- MODULE Spec2Model ----
(***************************************************************************)
(* ZaJiSchedule: host-local CPU governor.                                  *)
(*                                                                         *)
(* Two control loops live in the repository.                               *)
(*   core/      : sliding windows + tiered solver + hysteresis loop        *)
(*                (core/scheduler.py, core/sliding_window.py,              *)
(*                 core/quota_manager.py, utils/cgroup_manager.py)         *)
(*   scheduler/ : lookahead solver over the metrics table                  *)
(*                (scheduler/cpu_scheduler.py, database.py, config.py)     *)
(*                                                                         *)
(* Units.  CPU percentages that are floats in the code are fixed-point     *)
(* integers here: one unit is 0.01 % (Pct(30) is 30 %).  Samples are whole *)
(* percents.  Time is counted in whole seconds.                            *)
(***************************************************************************)
EXTENDS Integers, Sequences, FiniteSets, TLC

VARIABLES
    now,                  \* wall clock read by datetime.now()
    data_points,          \* SlidingWindow.data_points: <<[ts, cpu]>>, youngest last
    sum_usage,            \* SlidingWindow.sum_usage (whole percents)
    peak_periods,         \* PeakWindow.peak_periods: <<[start_time, duration]>>
    current_peak_start,   \* PeakWindow.current_peak_start or None
    current_cpu_limit,    \* CPUScheduler._current_cpu_limit
    last_adjustment_time, \* CPUScheduler._last_adjustment_time or None
    cgroup_limit,         \* CGroupManager._current_limit (fine units) or None
    reservations,         \* rows of table quota_reservations
    last,                 \* what the latest loop iteration computed and did
    metrics_history,      \* rows of table metrics_history: <<[ts, cpu]>> by ts
    time_slots,           \* rows of table time_slot_config
    safe_limit_cache,     \* scheduler CPUScheduler._safe_limit_cache or None
    cache_timestamp,      \* scheduler CPUScheduler._cache_timestamp or None
    solved,               \* what the latest calculate_safe_cpu_limit call did
    monitoring_interval,  \* Settings.monitoring_interval: seconds between two ticks
    host,                 \* the machine: euid, cgroup v2 mount, cpu controller, cores
    initialized,          \* CGroupManager._initialized
    cgroup_dir,           \* whether the cgroup directory exists
    cpu_max,              \* content of the cgroup's cpu.max file
    monitoring_saved,     \* timestamp of the latest monitoring_data row or None
    peak_run,             \* history: how many of the latest samples in a row were peaks
    probe,                \* the latest direct call on an actuator and its result
    call,                 \* the latest direct call on the QuotaManager and its result
    procs,                \* the machine's process table (psutil.process_iter)
    cgroup_procs,         \* pids in the cgroup's cgroup.procs
    sync,                 \* what the latest sync_all_processes did
    monitor,              \* main.py: the monitor task, its locals and its latest tick
    sched,                \* core CPUScheduler: _running, the loop task and where it waits
    stored,               \* table system_config and the latest PUT /api/config/system
    status,               \* what the latest get_scheduler_status returned
    creating,             \* the create_reservation calls in flight, by caller
    sampler               \* SystemMonitor: counters, last readings, latest sample

coreVars == <<data_points, sum_usage, peak_periods, current_peak_start,
              current_cpu_limit, last_adjustment_time, cgroup_limit,
              reservations, last>>

solverVars == <<metrics_history, time_slots, safe_limit_cache,
                cache_timestamp, solved>>

hostVars == <<monitoring_interval, host, initialized, cgroup_dir, cpu_max,
              monitoring_saved, peak_run, probe, call>>

managedVars == <<procs, cgroup_procs, sync, monitor>>

serviceVars == <<sched, stored, status, creating, sampler>>

vars == <<now, coreVars, solverVars, hostVars, managedVars, serviceVars>>

-----------------------------------------------------------------------------
(* Arithmetic helpers *)

Pct(p) == p * 100

None == 0 - 1

Max(a, b) == IF a >= b THEN a ELSE b

Min(a, b) == IF a <= b THEN a ELSE b

Abs(a) == IF a >= 0 THEN a ELSE 0 - a

RECURSIVE SumCpu(_)
SumCpu(s) == IF s = <<>> THEN 0 ELSE Head(s).cpu + SumCpu(Tail(s))

RECURSIVE SumDuration(_)
SumDuration(s) == IF s = <<>> THEN 0 ELSE Head(s).duration + SumDuration(Tail(s))

-----------------------------------------------------------------------------
(* Bounds of the model.  The time-valued settings are configuration fields  *)
(* (environment-overridable ints); they are taken small so that a run of a  *)
(* few ticks crosses them.                                                  *)

MaxTime == 5

MaxSteadyTime == 30

max_data_points == 2

peak_window_seconds == 4

limits_peak_max_duration == 2

limits_peak_critical_threshold == 1

scheduler_adjustment_interval == 2

reservation_min_duration == 1

reservation_max_duration == 20

MaxReservations == 1

\* scheduler/: rolling_window_hours and cpu_limit_adjust_interval_seconds,
\* both counted in sampling periods, and the length of the solver runs
rolling_window == 4

adjust_step == 1

MaxSolverTime == 6

\* largest monitoring_interval explored (seconds)
MaxInterval == 3

\* last instant at which the peak window driven on its own takes a sample
MaxPeakTime == 9

\* reservation store: the largest UTC offset of a datetime passed in (hours
\* east), the number of rows and the latest instant a call mentions
MaxOffset == 2

MaxStoreRows == 2

MaxStoreTime == 4
MaxCallers == 2
MaxSampleTime == 4
MaxBytes == 3

\* the largest os.cpu_count() of a machine
MaxCpus == 3

\* the largest pid in a process table
MaxPid == 4

\* main.py: how long the monitor task is followed (seconds)
MaxMonitorTime == 130

\* seconds the core loop is followed from start() to stop()
MaxLoopTime == 3

-----------------------------------------------------------------------------
(* Settings defaults (config/settings.py) *)

limits_avg_max_usage == Pct(30)

limits_peak_threshold == 95

limits_absolute_min_cpu == Pct(5)

limits_absolute_max_cpu == Pct(95)

scheduler_change_threshold == Pct(2)

scheduler_quota_high_cpu_limit == Pct(85)

scheduler_quota_medium_cpu_limit == Pct(60)

scheduler_quota_low_cpu_limit == Pct(35)

scheduler_emergency_threshold == Pct(1)

scheduler_emergency_cpu_limit == Pct(20)

cgroup_enabled == TRUE

\* Defaults of the scheduler/ configuration (database.py, config.py)
min_load_percent == Pct(10)

max_load_percent == Pct(90)

avg_load_limit_percent == Pct(30)

\* safety_factor = 0.9 and startup_safety_factor = 0.7, in tenths
safety_factor == 9

startup_safety_factor == 7

FactorDen == 10

\* startup_data_threshold_percent as configured at the upper end of its
\* range (the default is 10): with a window of rolling_window sampling
\* periods the threshold is then a whole number of periods
startup_data_threshold_percent == 50

\* scheduler_smooth_factor = 0.3, as a fraction SmoothNum / SmoothDen
SmoothNum == 3

SmoothDen == 10

-----------------------------------------------------------------------------
(* Inputs *)

CpuValues == {0, 28, 100}

WindowCpuValues == CpuValues \cup {50, 95}

ResStarts == {2}

ResDurations == {0, 1, reservation_max_duration, reservation_max_duration + 1}

ResQuotas == {0, 50}

ResPriorities == {5}

SolverCpuValues == {0, 50, 100}

\* time_slot_config tables used: none, or one enabled slot of one period
\* starting at second 5 with max_load_percent 20
SlotTables ==
    {{}, {[start_time |-> 5, end_time |-> 6, max_load_percent |-> 20,
           enabled |-> TRUE]}}

-----------------------------------------------------------------------------
(* core/sliding_window.py : SlidingWindow *)

\* faulty variant: add_data_point that forgets to take the evicted usage off the sum
AddDataPointNoEvict(dp, sum, cpu, ts) ==
    LET dp1 == IF Len(dp) >= max_data_points THEN Tail(dp) ELSE dp
    IN  [dp |-> Append(dp1, [ts |-> ts, cpu |-> cpu]), sum |-> sum + cpu]

\* add_data_point: when the deque is full the oldest usage leaves the sum,
\* and deque(maxlen=...) drops the oldest entry on append.
AddDataPoint(dp, sum, cpu, ts) ==
    LET full == Len(dp) >= max_data_points
        sum1 == IF full THEN sum - Head(dp).cpu ELSE sum
        dp1  == IF full THEN Tail(dp) ELSE dp
    IN  [dp |-> Append(dp1, [ts |-> ts, cpu |-> cpu]), sum |-> sum1 + cpu]

\* get_average, in 0.01 % units
GetAverage(dp, sum) == IF Len(dp) = 0 THEN 0 ELSE (sum * 100) \div Len(dp)

\* SlidingWindow.get_remaining_quota
AvgRemainingQuota(dp, sum, max_usage) == Max(0, max_usage - GetAverage(dp, sum))

-----------------------------------------------------------------------------
(* core/sliding_window.py : PeakWindow *)

\* _cleanup_old_periods
RECURSIVE CleanupOldPeriods(_, _)
CleanupOldPeriods(pp, current_time) ==
    IF pp # <<>> /\ Head(pp).start_time < current_time - peak_window_seconds
    THEN CleanupOldPeriods(Tail(pp), current_time)
    ELSE pp

\* faulty variant: update that restarts the open span at every peak sample
PeakUpdateRestart(pp, start, cpu, ts) ==
    [pp |-> pp,
     start |-> IF cpu >= limits_peak_threshold THEN ts ELSE None]

\* faulty variant: update that never closes the open span
PeakUpdateNoClose(pp, start, cpu, ts) ==
    [pp |-> CleanupOldPeriods(pp, ts),
     start |-> IF cpu >= limits_peak_threshold /\ start = None THEN ts ELSE start]

\* update
PeakUpdate(pp, start, cpu, ts) ==
    LET is_peak == cpu >= limits_peak_threshold
        start1  == IF is_peak
                   THEN (IF start = None THEN ts ELSE start)
                   ELSE None
        pp1     == IF ~is_peak /\ start # None
                   THEN Append(pp, [start_time |-> start, duration |-> ts - start])
                   ELSE pp
    IN  [pp |-> CleanupOldPeriods(pp1, ts), start |-> start1]

\* get_total_peak_duration
TotalPeakDuration(pp, start, t) ==
    SumDuration(pp) + (IF start # None THEN t - start ELSE 0)

\* PeakWindow.get_remaining_quota
PeakRemainingQuota(pp, start, t, max_duration) ==
    Max(0, max_duration - TotalPeakDuration(pp, start, t))

-----------------------------------------------------------------------------
(* core/quota_manager.py : QuotaManager *)

\* A timezone-aware datetime is an instant and a UTC offset.  The table
\* holds datetime.isoformat() texts and SQLite compares them as texts:
\* "YYYY-MM-DDTHH:MM:SS+HH:MM" orders by the local clock reading first and
\* by the offset suffix second.  IsoFormat is that text as a number with
\* the same order; FromIsoFormat is datetime.fromisoformat.
UtcOffsets == 0..MaxOffset

IsoBase == MaxOffset + 1

DateTime(instant, off) == [instant |-> instant, off |-> off]

Utc(instant) == DateTime(instant, 0)

IsoFormat(d) == (d.instant + d.off) * IsoBase + d.off

FromIsoFormat(text) ==
    DateTime((text \div IsoBase) - (text % IsoBase), text % IsoBase)

\* the rows the SELECT of get_active_reservation matches; t is the text
\* current_time.isoformat()
ActiveRows(rows, t) ==
    {r \in rows : r.enabled /\ r.start_time <= t /\ r.end_time >= t}

\* ORDER BY priority DESC, start_time ASC LIMIT 1: the set holding the row
\* fetched, or the empty set when fetchone() gives no row
GetActiveReservation(rows, current_time) ==
    LET act == ActiveRows(rows, IsoFormat(current_time))
    IN  IF act = {} THEN {}
        ELSE {CHOOSE r \in act :
                \A o \in act :
                    \/ r.priority > o.priority
                    \/ r.priority = o.priority /\ r.start_time < o.start_time
                    \/ r.priority = o.priority /\ r.start_time = o.start_time
                       /\ r.id <= o.id}

\* reservation.cpu_quota if reservation else None (_calculate_available_quota);
\* the loop looks up datetime.now(UTC)
ReservationQuota(rows, t) ==
    LET got == GetActiveReservation(rows, Utc(t))
    IN  IF got = {} THEN None ELSE (CHOOSE r \in got : TRUE).cpu_quota

\* _check_conflict
CheckConflict(rows, start_time, end_time) ==
    LET s == IsoFormat(start_time)
        e == IsoFormat(end_time)
    IN  \E r \in rows :
            /\ r.enabled
            /\ \/ r.start_time <= s /\ r.end_time >= s
               \/ r.start_time <= e /\ r.end_time >= e
               \/ r.start_time >= s /\ r.end_time <= e

-----------------------------------------------------------------------------
(* core/scheduler.py : CPUScheduler *)

\* _calculate_cpu_limit; reservation_quota is None or a quota in 0.01 %
CalculateCpuLimit(avg_quota_remaining, peak_quota_remaining, reservation_quota) ==
    IF reservation_quota # None
    THEN Min(reservation_quota, limits_absolute_max_cpu)
    ELSE
      LET tier == IF avg_quota_remaining > Pct(20)
                    THEN scheduler_quota_high_cpu_limit
                  ELSE IF avg_quota_remaining > Pct(5)
                    THEN scheduler_quota_medium_cpu_limit
                  ELSE IF avg_quota_remaining > scheduler_emergency_threshold
                    THEN scheduler_quota_low_cpu_limit
                  ELSE scheduler_emergency_cpu_limit
          target == IF peak_quota_remaining < limits_peak_critical_threshold
                    THEN Min(tier, scheduler_emergency_cpu_limit)
                    ELSE tier
      IN  Max(limits_absolute_min_cpu, Min(target, limits_absolute_max_cpu))

\* faulty variant: smoothing with the two weights swapped
SmoothedLimitSwapped(cur, new_limit) ==
    (cur * SmoothNum + new_limit * (SmoothDen - SmoothNum)) \div SmoothDen

\* faulty variant: no smoothing: the decision is applied as it is
SmoothedLimitJump(cur, new_limit) == new_limit

\* faulty variant: smoothing that weighs the current limit twice
SmoothedLimitStuck(cur, new_limit) ==
    (cur * (SmoothDen - SmoothNum) + cur * SmoothNum) \div SmoothDen

\* the smoothed limit of _adjust_cpu_limit
SmoothedLimit(cur, new_limit) ==
    (cur * (SmoothDen - SmoothNum) + new_limit * SmoothNum) \div SmoothDen

\* the two early returns of _adjust_cpu_limit
ChangeTooSmall(cur, new_limit) == Abs(new_limit - cur) < scheduler_change_threshold

\* faulty variant: the adjustment-interval check left out
TooSoonNever(last_adj, current_time) == FALSE

TooSoon(last_adj, current_time) ==
    last_adj # None /\ current_time - last_adj < scheduler_adjustment_interval

-----------------------------------------------------------------------------
(* utils/cgroup_manager.py : the cgroup v2 actuator of the core loop *)

\* Percentages handed to an actuator are counted in fine units of 0.0001 %,
\* FineScale of them to one 0.01 % unit, so that the truncation in
\* int(period * limit / 100) is visible.
FineScale == 10 * 10

Fine(limit) == limit * FineScale

\* CGroupManager.cpu_period (microseconds)
cpu_period == 100000

\* What cpu.max reads as: no file, the bare word "max", "max <period>"
\* (what the kernel reports for an unbounded group and what remove_cpu_limit
\* writes), or "<quota> <period>".
NoFile == [form |-> "absent", quota |-> 0, period |-> 0]

MaxOnly == [form |-> "max", quota |-> 0, period |-> 0]

MaxPeriod(period) == [form |-> "max period", quota |-> 0, period |-> period]

QuotaPeriod(quota, period) ==
    [form |-> "quota period", quota |-> quota, period |-> period]

\* The actuator-side state as one value
CGroupState == [initialized |-> initialized, cgroup_dir |-> cgroup_dir,
                cpu_max |-> cpu_max, current_limit |-> cgroup_limit]

\* faulty variant: initialize without the geteuid() check
CGroupInitializeNoEuid(c) ==
    IF ~cgroup_enabled THEN [ret |-> FALSE, c |-> c]
    ELSE IF c.initialized THEN [ret |-> TRUE, c |-> c]
    ELSE IF ~host.cgroup_root THEN [ret |-> FALSE, c |-> c]
    ELSE
      LET file == IF c.cgroup_dir THEN c.cpu_max
                  ELSE IF host.cpu_controller THEN MaxPeriod(cpu_period)
                  ELSE NoFile
          made == [c EXCEPT !.cgroup_dir = TRUE, !.cpu_max = file]
      IN  IF file.form = "absent"
          THEN [ret |-> FALSE, c |-> made]
          ELSE [ret |-> TRUE, c |-> [made EXCEPT !.initialized = TRUE]]

\* CGroupManager.initialize on state c: [ret, c]
CGroupInitialize(c) ==
    IF ~cgroup_enabled THEN [ret |-> FALSE, c |-> c]
    ELSE IF c.initialized THEN [ret |-> TRUE, c |-> c]
    ELSE IF ~host.euid_root THEN [ret |-> FALSE, c |-> c]
    ELSE IF ~host.cgroup_root THEN [ret |-> FALSE, c |-> c]
    ELSE
      \* mkdir: the kernel populates a new group with cpu.max = "max 100000"
      \* when the cpu controller is delegated to it
      LET file == IF c.cgroup_dir THEN c.cpu_max
                  ELSE IF host.cpu_controller THEN MaxPeriod(cpu_period)
                  ELSE NoFile
          made == [c EXCEPT !.cgroup_dir = TRUE, !.cpu_max = file]
      IN  IF file.form = "absent"
          THEN [ret |-> FALSE, c |-> made]
          ELSE [ret |-> TRUE, c |-> [made EXCEPT !.initialized = TRUE]]

\* Fine units of percentage per microsecond of quota in a period of
\* cpu_period (the period divides the fine units of 100 %)
FinePerQuota(period) == Fine(Pct(100)) \div period

\* The whole percentages p for which the double product
\* cpu_period * (p / 100.0) falls just below p * 1000, so that int() gives
\* one less (28999 for 29 %); the other percentages the model hands over
\* are taken with the exact product.
DoubleShort == {29, 57, 58}

\* the quota set_cpu_limit computes: int(cpu_period * (limit_percent / 100))
CGroupQuota(limit_fine) ==
    IF limit_fine \in {Fine(Pct(p)) : p \in DoubleShort}
    THEN (limit_fine \div FinePerQuota(cpu_period)) - 1
    ELSE limit_fine \div FinePerQuota(cpu_period)

\* CGroupManager.set_cpu_limit(limit_percent) on state c: [ret, c].
\* io_ok says whether write_text on cpu.max goes through.
CGroupSetCpuLimit(c, limit_fine, io_ok) ==
    LET i == IF c.initialized THEN [ret |-> TRUE, c |-> c]
             ELSE CGroupInitialize(c)
        limit_percent == Max(Fine(limits_absolute_min_cpu),
                             Min(limit_fine, Fine(limits_absolute_max_cpu)))
    IN  IF ~i.ret THEN [ret |-> FALSE, c |-> i.c]
        ELSE IF ~io_ok THEN [ret |-> FALSE, c |-> i.c]
        ELSE [ret |-> TRUE,
              c |-> [i.c EXCEPT
                       !.cpu_max = QuotaPeriod(CGroupQuota(limit_percent), cpu_period),
                       !.current_limit = limit_percent]]

\* CGroupManager.get_current_limit: a percentage as a fraction num / den of
\* fine units, or None
NoLimit == [some |-> FALSE, num |-> 0, den |-> 1]

SomeLimit(num, den) == [some |-> TRUE, num |-> num, den |-> den]

CGroupGetCurrentLimit(c) ==
    IF ~c.initialized THEN NoLimit
    ELSE IF c.cpu_max.form = "absent" THEN NoLimit
    ELSE IF c.cpu_max.form = "max" THEN SomeLimit(Fine(Pct(100)), 1)
    ELSE IF c.cpu_max.form = "max period" THEN NoLimit  \* int("max") raises
    ELSE IF c.cpu_max.period = 0 THEN NoLimit           \* ZeroDivisionError
    ELSE SomeLimit(c.cpu_max.quota * FinePerQuota(c.cpu_max.period), 1)

\* CGroupManager.remove_cpu_limit: [ret, c]
CGroupRemoveCpuLimit(c, io_ok) ==
    IF ~c.initialized THEN [ret |-> FALSE, c |-> c]
    ELSE IF ~io_ok THEN [ret |-> FALSE, c |-> c]
    ELSE [ret |-> TRUE,
          c |-> [c EXCEPT !.cpu_max = MaxPeriod(100000),
                          !.current_limit = Fine(Pct(100))]]

-----------------------------------------------------------------------------
(* main.py : CGroupManager, cpu_limiter.py : CGroupCPULimiter *)

\* main.py CGroupManager.set_cpu_limit: cpu.max after the call.  The
\* product cpu_percent * cpu_count * period is divided by 100 last, which
\* is exact for the percentages the model hands over.  A write that fails
\* is logged and swallowed.
MainSetCpuLimit(file, cpu_fine, io_ok) ==
    LET cpu_percent == Max(0, Min(Fine(Pct(100)), cpu_fine))
        period      == 100000
        quota       == (cpu_percent * host.cpu_count) \div FinePerQuota(period)
    IN  IF io_ok /\ file.form # "absent"
        THEN QuotaPeriod(quota, period) ELSE file

\* main.py CGroupManager.get_current_limit: startswith("max") gives 100,
\* any exception gives 0.0, else (quota / period / cpu_count) * 100
MainGetCurrentLimit(file) ==
    IF file.form = "absent" THEN SomeLimit(0, 1)
    ELSE IF file.form \in {"max", "max period"}
         THEN SomeLimit(Fine(Pct(100)), 1)
    ELSE IF file.period = 0 THEN SomeLimit(0, 1)
    ELSE SomeLimit(file.quota * FinePerQuota(file.period), host.cpu_count)

\* cpu_limiter.py CGroupCPULimiter.set_cpu_limit: cpu.max after the call
\* (a failing write raises and leaves the file)
LimiterSetCpuLimit(file, cpu_fine, io_ok) ==
    LET cpu_percent == Max(0, Min(Fine(Pct(100)), cpu_fine))
        period      == 100000
        quota       == cpu_percent \div FinePerQuota(period)
    IN  IF io_ok /\ file.form # "absent"
        THEN QuotaPeriod(quota, period) ELSE file

-----------------------------------------------------------------------------
(* main.py : CGroupManager, the members of the cgroup *)

\* What psutil reports for a process: name, username, whether cmdline() is
\* non-empty, and whether the process is still there when it is looked at
\* again (cmdline() raises NoSuchProcess and the kernel answers a write of
\* its pid to cgroup.procs with ESRCH when it is not).
ProcessKinds ==
    {[name |-> "python",     username |-> "app",  cmdline |-> TRUE],
     [name |-> "cron",       username |-> "root", cmdline |-> TRUE],
     [name |-> "sshd",       username |-> "root", cmdline |-> TRUE],
     [name |-> "SSH-Agent",  username |-> "app",  cmdline |-> TRUE],
     [name |-> "kworker/0:1", username |-> "root", cmdline |-> FALSE]}

Process(pid, kind, exited) ==
    [pid |-> pid, name |-> kind.name, username |-> kind.username,
     cmdline |-> kind.cmdline, exited |-> exited]

\* os.getpid(): the service itself, started by root
current_pid == 3

\* pid 1 is init, pid 2 is kthreadd, pid 3 the service; the others vary
BaseProcs ==
    {Process(1, [name |-> "systemd", username |-> "root", cmdline |-> TRUE],
             FALSE),
     Process(2, [name |-> "kthreadd", username |-> "root", cmdline |-> FALSE],
             FALSE),
     Process(current_pid,
             [name |-> "python", username |-> "root", cmdline |-> TRUE],
             FALSE)}

OtherPids == (current_pid + 1)..MaxPid

ProcessTables ==
    {BaseProcs \cup {Process(pid, f[pid].kind, f[pid].exited) :
                        pid \in {q \in OtherPids : f[q].there}} :
        f \in [OtherPids -> [there : BOOLEAN, kind : ProcessKinds,
                             exited : BOOLEAN]]}

\* sys_name in name.lower() for the names of system_process_names = {"ssh"}
NameLower(name) ==
    IF name = "SSH-Agent" THEN "ssh-agent" ELSE name

IsSystemProcess(name) == NameLower(name) \in {"sshd", "ssh-agent", "ssh"}

\* how the kernel answers a write of pid to cgroup.procs; allowed says
\* whether the writer may move that process into the group
WriteProcs(proc, allowed) ==
    IF proc.exited THEN "ESRCH"
    ELSE IF ~allowed THEN "EACCES"
    ELSE "ok"

\* main.py CGroupManager.add_process: True when write_text went through
MainAddProcess(proc, allowed) == WriteProcs(proc, allowed) = "ok"

\* utils CGroupManager.add_process on state c: initialize first when needed
CGroupAddProcess(c, proc, allowed) ==
    LET i == IF c.initialized THEN [ret |-> TRUE, c |-> c]
             ELSE CGroupInitialize(c)
    IN  [ret |-> i.ret /\ WriteProcs(proc, allowed) = "ok",
         wrote |-> i.ret, c |-> i.c]

\* faulty variant: only pid 1 and pid 2 are skipped
SkipProcessPidOnly(proc) == proc.pid <= 2

\* the three filters of sync_all_processes: whether proc is counted as
\* skipped (for a root process other than the service, cmdline() that is
\* empty or raises)
SkipProcess(proc) ==
    \/ proc.pid <= 2
    \/ IsSystemProcess(proc.name)
    \/ /\ proc.username = "root" /\ proc.pid # current_pid
       /\ (~proc.cmdline \/ proc.exited)

\* main.py CGroupManager.sync_all_processes over process table table;
\* allowed is the set of pids the kernel lets the writer move
SyncAllProcesses(table, allowed) ==
    LET skipped == {q \in table : SkipProcess(q)}
        tried   == table \ skipped
        added   == {q \in tried : MainAddProcess(q, q.pid \in allowed)}
    IN  [done |-> TRUE, total |-> Cardinality(table),
         added |-> Cardinality(added), skipped |-> Cardinality(skipped),
         failed |-> Cardinality(tried \ added),
         tried |-> {q.pid : q \in tried},
         added_pids |-> {q.pid : q \in added}, table |-> table]

-----------------------------------------------------------------------------
(* main.py : lifespan, init_cgroup_management, monitor_and_adjust_cpu_limit *)

\* main.py before lifespan starts: no task, no tick.  The fields of tick:
\* what the latest iteration of monitor_and_adjust_cpu_limit read
\* (safe_limit, current_limit, current_cpu), whether it ran the periodic
\* and the emergency sync (elapsed: seconds since the sync before), whether
\* it took the over-limit branch, whether
\* it logged a cpu_limit_adjust record and called set_cpu_limit, and
\* whether it ended in the except branch and logged the error there.
NoMonitorTick ==
    [at |-> None, elapsed |-> 0, safe_limit |-> 0, current_limit |-> NoLimit,
     current_cpu |-> 0, periodic |-> FALSE, emergency |-> FALSE,
     violation |-> FALSE, decision |-> FALSE, set_called |-> FALSE,
     file_before |-> NoFile, error |-> FALSE, error_logged |-> FALSE]

NoMonitor ==
    [task |-> "none", managed |-> FALSE, shut_down |-> FALSE,
     cleaned |-> FALSE, last_sync_time |-> 0, sync_times |-> <<>>,
     last_sync_at |-> 0,
     process_sync_interval_seconds |-> 60, adjust_interval |-> 15, boot |-> 0,
     tick |-> NoMonitorTick]

\* the keys of the dict get_scheduler_status returns
StatusKeys ==
    {"current_cpu_percent", "rolling_window_avg_cpu", "avg_load_limit",
     "margin_absolute", "margin_percent", "risk_level", "safe_cpu_limit",
     "data_points", "quota_info", "is_startup_period", "config"}

\* the keys monitor_and_adjust_cpu_limit subscripts status with before it
\* does anything else; a missing one raises KeyError
MonitorReads ==
    {"safe_cpu_limit", "current_cpu_percent", "sliding_window_avg_cpu"}

\* config.cpu_limit_tolerance_percent, the fixed sync_interval and the
\* debounce of the emergency sync (seconds), the change that makes the
\* loop adjust (percent) and the sleep after an error (seconds)
cpu_limit_tolerance_percent == Fine(Pct(1))

sync_interval == 60

EmergencyDebounce == 5

AdjustThreshold == Fine(Pct(5))

ErrorSleep == 10

\* avg_load_limit_percent: the limit init_cgroup_management sets first
initial_limit == Fine(Pct(30))

\* init_cgroup_management on host h: [managed, dir, file, members, stats]
InitCgroupManagement(h, table, allowed, io_ok) ==
    IF ~h.euid_root \/ ~h.cgroup_root
    THEN [managed |-> FALSE, dir |-> cgroup_dir, file |-> cpu_max,
          members |-> cgroup_procs, stats |-> sync, synced |-> FALSE]
    ELSE IF ~h.cpu_controller
    THEN \* setup() raises on cgroup.subtree_control: monitoring mode
         [managed |-> FALSE, dir |-> TRUE, file |-> cpu_max,
          members |-> cgroup_procs, stats |-> sync, synced |-> FALSE]
    ELSE
      LET file0 == IF cgroup_dir THEN cpu_max ELSE MaxPeriod(cpu_period)
          stats == SyncAllProcesses(table, allowed)
          me    == {q.pid : q \in {r \in table :
                       r.pid = current_pid
                       /\ MainAddProcess(r, r.pid \in allowed)}}
      IN  [managed |-> TRUE, dir |-> TRUE,
           file |-> MainSetCpuLimit(file0, initial_limit, io_ok),
           members |-> cgroup_procs \cup me \cup stats.added_pids,
           stats |-> stats, synced |-> TRUE]

\* One iteration of the while loop of monitor_and_adjust_cpu_limit up to
\* its sleep, on monitor record m at clock reading t: the new record, the
\* file, the sync statistics and the members after it.  safe_limit and
\* current_cpu are what get_scheduler_status reports; io_ok, db_ok and
\* log_ok say whether the write to cpu.max, the inserts of the body and
\* the insert of the except branch go through.
MonitorIteration(m, t, safe_limit, current_cpu, table, allowed, io_ok, db_ok, log_ok) ==
    LET current_limit == MainGetCurrentLimit(cpu_max)
        read == [NoMonitorTick EXCEPT !.at = t, !.safe_limit = safe_limit,
                    !.elapsed = t - m.last_sync_at,
                    !.current_limit = current_limit,
                    !.current_cpu = current_cpu, !.file_before = cpu_max]
        raised(tick) ==
            [m |-> [m EXCEPT !.tick = [tick EXCEPT !.error = TRUE,
                                                  !.error_logged = log_ok],
                             !.task = IF log_ok THEN "running" ELSE "dead"],
             file |-> cpu_max, stats |-> sync, members |-> cgroup_procs,
             sleep |-> ErrorSleep]
    IN  IF ~(MonitorReads \subseteq StatusKeys)
        THEN raised(read)
        ELSE
          LET mono     == t + m.boot
              periodic == mono - m.last_sync_time >= sync_interval
              stats1   == IF periodic THEN SyncAllProcesses(table, allowed)
                          ELSE sync
              last1    == IF periodic THEN mono ELSE m.last_sync_time
              times1   == IF periodic THEN Append(m.sync_times, t)
                          ELSE m.sync_times
              adjust   == Abs(safe_limit * current_limit.den
                              - current_limit.num)
                            > AdjustThreshold * current_limit.den
              file1    == IF adjust /\ db_ok
                          THEN MainSetCpuLimit(cpu_max, safe_limit, io_ok)
                          ELSE cpu_max
              violation == current_cpu > safe_limit + cpu_limit_tolerance_percent
              emergency == violation /\ mono - last1 >= EmergencyDebounce
              stats2   == IF emergency THEN SyncAllProcesses(table, allowed)
                          ELSE stats1
              members  == cgroup_procs
                            \cup (IF periodic THEN stats1.added_pids ELSE {})
                            \cup (IF emergency THEN stats2.added_pids ELSE {})
              done == [read EXCEPT !.periodic = periodic,
                                   !.decision = adjust /\ db_ok,
                                   !.set_called = adjust /\ db_ok,
                                   !.violation = violation /\ (adjust => db_ok),
                                   !.emergency = emergency /\ (adjust => db_ok)]
          IN  IF (adjust \/ violation) /\ ~db_ok
              THEN \* an insert_scheduler_log of the body raises
                   LET r == raised([done EXCEPT !.emergency =
                                      emergency /\ ~adjust])
                   IN  [r EXCEPT
                          !.m.last_sync_time =
                             IF emergency /\ ~adjust THEN mono ELSE last1,
                          !.m.sync_times =
                             IF emergency /\ ~adjust THEN Append(times1, t)
                             ELSE times1,
                          !.m.last_sync_at =
                             IF periodic \/ (emergency /\ ~adjust) THEN t
                             ELSE m.last_sync_at,
                          !.stats = IF emergency /\ ~adjust THEN stats2
                                    ELSE stats1,
                          !.members =
                             cgroup_procs
                               \cup (IF periodic THEN stats1.added_pids ELSE {})
                               \cup (IF emergency /\ ~adjust
                                     THEN stats2.added_pids ELSE {})]
              ELSE [m |-> [m EXCEPT
                             !.tick = done,
                             !.last_sync_time = IF emergency THEN mono ELSE last1,
                             !.sync_times = IF emergency THEN Append(times1, t)
                                            ELSE times1,
                             !.last_sync_at = IF periodic \/ emergency THEN t
                                              ELSE m.last_sync_at],
                    file |-> file1, stats |-> stats2, members |-> members,
                    sleep |-> m.adjust_interval]

-----------------------------------------------------------------------------
(* State machine of the core loop *)

\* `last` records one loop iteration: its inputs, the solver's decision
\* (new_limit), the limit held before it (before), whether set_cpu_limit was
\* called (attempted) with which argument (arg) and whether cpu.max was
\* written (wrote).  write_ts / prev_write are the times of the latest write
\* after / before the iteration; run_writes counts the writes made since the
\* decision last changed.
NoTick == [ticked |-> FALSE, cpu |-> 0, avg_quota_remaining |-> 0,
           peak_quota_remaining |-> 0, reservation_quota |-> None,
           new_limit |-> 0, before |-> 0,
           attempted |-> FALSE, wrote |-> FALSE, arg |-> 0,
           write_ts |-> None, prev_write |-> None, run_writes |-> 0]

NotSolved == [done |-> FALSE, path |-> "none", limit |-> 0, raw |-> 0,
              cached |-> FALSE, factor |-> 0, count |-> 0]

\* A machine on which the actuator works: root, cgroup v2 mounted, the cpu
\* controller available
GoodHost == [euid_root |-> TRUE, cgroup_root |-> TRUE, cpu_controller |-> TRUE,
             cpu_count |-> 1]

\* op: the call; prev: the call made just before it; arg: the percentage
\* of the latest set; ret: whether the latest call reported success (for
\* the setters that return nothing: whether the write went through);
\* got: what the latest get returned; before, dir_before: cpu.max and the
\* existence of the cgroup directory before the call
\* errno: how the latest write to cgroup.procs ended
NoProbe == [op |-> "none", prev |-> "none", impl |-> "none", arg |-> 0,
            ret |-> FALSE, got |-> NoLimit, before |-> NoFile,
            dir_before |-> FALSE, errno |-> "none"]

\* main.py before init_cgroup_management: no process scanned yet
NoSync == [done |-> FALSE, total |-> 0, added |-> 0, skipped |-> 0,
           failed |-> 0, tried |-> {}, added_pids |-> {}, table |-> {}]

NoProcs == {}

\* the tick the core loop is in: what it sampled, the limit and the time of
\* the last adjustment it found, and which of its steps have acted
NoLoopTick == [sampled |-> FALSE, timestamp |-> None, cpu |-> 0,
               before |-> 0, before_adj |-> None, solved |-> FALSE,
               attempted |-> FALSE, wrote |-> FALSE, logged |-> FALSE,
               saved |-> FALSE]

\* pc: the await the loop task is suspended at
NoSched == [running |-> FALSE, task |-> "none", pc |-> "none",
            stopped_at |-> "none", schedule_logs |-> 0, tick |-> NoLoopTick]

\* Database.init_database, default_configs: percentages and seconds as
\* written, the factors in hundredths
DefaultConfig ==
    [min_load_percent |-> 10, max_load_percent |-> 90,
     rolling_window_hours |-> 24, avg_load_limit_percent |-> 30,
     history_retention_days |-> 30, metrics_interval_seconds |-> 5,
     safety_factor |-> 90, startup_safety_factor |-> 70,
     startup_data_threshold_percent |-> 10]

\* before: the configuration the latest request found
NoStored == [config |-> DefaultConfig, request |-> DefaultConfig,
             before |-> DefaultConfig, status_code |-> 0]

NoStatus == [done |-> FALSE, current_cpu_percent |-> 0,
             rolling_window_avg_cpu |-> 0, avg_load_limit |-> 0,
             margin_absolute |-> 0, safe_cpu_limit |-> 0, data_points |-> 0]

\* callers of create_reservation that may run at the same time
Callers == 1..MaxCallers

NoCreate == [pc |-> "idle", start_time |-> Utc(0), end_time |-> Utc(0),
             ret |-> None]

NoCreating == [c \in Callers |-> NoCreate]

NoRate == [num |-> 0, den |-> 1]

NoReading == [some |-> FALSE, value |-> 0, at |-> 0]

NoSampler ==
    [built |-> FALSE, enable_disk |-> FALSE, enable_network |-> FALSE,
     read_bytes |-> 0, bytes_recv |-> 0,
     last_disk_io |-> None, last_network_io |-> None,
     last_timestamp |-> None,
     disk_reading |-> NoReading, network_reading |-> NoReading,
     sample |-> [done |-> FALSE, at |-> 0,
                 disk_io_read |-> NoRate, network_in |-> NoRate,
                 disk_before |-> NoReading, network_before |-> NoReading]]

InitService ==
    /\ sched = NoSched
    /\ stored = NoStored
    /\ status = NoStatus
    /\ creating = NoCreating
    /\ sampler = NoSampler

InitManaged ==
    /\ procs = NoProcs
    /\ cgroup_procs = {}
    /\ sync = NoSync
    /\ monitor = NoMonitor
    /\ InitService

NoCall == [op |-> "none", start_time |-> Utc(0), end_time |-> Utc(0),
           current_time |-> Utc(0), ret |-> None, got |-> {}, before |-> {}]

InitHost ==
    /\ monitoring_interval = 1
    /\ host = GoodHost
    /\ initialized = FALSE
    /\ cgroup_dir = FALSE
    /\ cpu_max = NoFile
    /\ monitoring_saved = None
    /\ peak_run = 0
    /\ probe = NoProbe
    /\ call = NoCall
    /\ InitManaged

InitSolver ==
    /\ metrics_history = <<>>
    /\ time_slots = {}
    /\ safe_limit_cache = None
    /\ cache_timestamp = None
    /\ solved = NotSolved

Init ==
    /\ now = 0
    /\ data_points = <<>>
    /\ sum_usage = 0
    /\ peak_periods = <<>>
    /\ current_peak_start = None
    /\ current_cpu_limit = limits_absolute_max_cpu
    /\ last_adjustment_time = None
    /\ cgroup_limit = None
    /\ reservations = {}
    /\ last = NoTick
    /\ InitSolver
    /\ InitHost

\* One iteration of _schedule_loop: collect, account, solve, adjust.
\* cpu is the sample, ok whether write_text on cpu.max goes through.
ScheduleLoopBody(cpu, ok) ==
    LET t    == now + monitoring_interval
        sw   == AddDataPoint(data_points, sum_usage, cpu, t)
        pw   == PeakUpdate(peak_periods, current_peak_start, cpu, t)
        avgr == AvgRemainingQuota(sw.dp, sw.sum, limits_avg_max_usage)
        pkr  == PeakRemainingQuota(pw.pp, pw.start, t, limits_peak_max_duration)
        resq == ReservationQuota(reservations, t)
        new_limit == CalculateCpuLimit(avgr, pkr, resq)
        proceed   == /\ ~ChangeTooSmall(current_cpu_limit, new_limit)
                     /\ ~TooSoon(last_adjustment_time, t)
        smoothed  == SmoothedLimit(current_cpu_limit, new_limit)
        attempted == proceed /\ cgroup_enabled
        act       == CGroupSetCpuLimit(CGroupState, Fine(smoothed), ok)
        c2        == IF attempted THEN act.c ELSE CGroupState
        wrote     == attempted /\ act.ret
    IN  /\ now' = t
        /\ data_points' = sw.dp
        /\ sum_usage' = sw.sum
        /\ peak_periods' = pw.pp
        /\ current_peak_start' = pw.start
        /\ current_cpu_limit' = IF wrote THEN smoothed ELSE current_cpu_limit
        /\ last_adjustment_time' = IF wrote THEN t ELSE last_adjustment_time
        /\ cgroup_limit' = c2.current_limit
        /\ initialized' = c2.initialized
        /\ cgroup_dir' = c2.cgroup_dir
        /\ cpu_max' = c2.cpu_max
        /\ monitoring_saved' = t
        /\ peak_run' = IF cpu >= limits_peak_threshold THEN peak_run + 1 ELSE 0
        /\ last' = [ticked |-> TRUE, cpu |-> cpu, avg_quota_remaining |-> avgr,
                    peak_quota_remaining |-> pkr, reservation_quota |-> resq,
                    new_limit |-> new_limit, before |-> current_cpu_limit,
                    attempted |-> attempted, wrote |-> wrote,
                    arg |-> IF attempted THEN smoothed ELSE 0,
                    write_ts |-> IF wrote THEN t ELSE last.write_ts,
                    prev_write |-> last.write_ts,
                    run_writes |->
                        (IF last.ticked /\ last.new_limit = new_limit
                         THEN last.run_writes ELSE 0) + (IF wrote THEN 1 ELSE 0)]
        /\ UNCHANGED <<reservations, solverVars, monitoring_interval, host,
                       probe, call, managedVars, serviceVars>>

Tick ==
    /\ now < MaxTime
    /\ \E cpu \in CpuValues, ok \in BOOLEAN : ScheduleLoopBody(cpu, ok)

\* SlidingWindow.add_data_point called on its own
WindowPush ==
    /\ now < MaxTime
    /\ \E cpu \in WindowCpuValues :
          LET sw == AddDataPoint(data_points, sum_usage, cpu, now + 1)
          IN  /\ now' = now + 1
              /\ data_points' = sw.dp
              /\ sum_usage' = sw.sum
    /\ UNCHANGED <<peak_periods, current_peak_start, current_cpu_limit,
                   last_adjustment_time, cgroup_limit, reservations, last,
                   solverVars, hostVars, managedVars, serviceVars>>

\* SlidingWindow.add_data_point called with a timestamp of the caller's
\* choosing (the parameter is public; nothing ties it to the clock)
WindowPushAt ==
    /\ \E cpu \in WindowCpuValues, timestamp \in 0..MaxTime :
          LET sw == AddDataPoint(data_points, sum_usage, cpu, timestamp)
          IN  /\ data_points' = sw.dp
              /\ sum_usage' = sw.sum
    /\ UNCHANGED <<now, peak_periods, current_peak_start, current_cpu_limit,
                   last_adjustment_time, cgroup_limit, reservations, last,
                   solverVars, hostVars, managedVars, serviceVars>>

\* SlidingWindow.clear
Clear ==
    /\ data_points' = <<>>
    /\ sum_usage' = 0
    /\ UNCHANGED <<now, peak_periods, current_peak_start, current_cpu_limit,
                   last_adjustment_time, cgroup_limit, reservations, last,
                   solverVars, hostVars, managedVars, serviceVars>>

\* QuotaManager.create_reservation (an API call, between two loop iterations)
CreateReservation ==
    \E start \in ResStarts, dur \in ResDurations,
       cpu_quota \in ResQuotas, priority \in ResPriorities :
       LET start_time == Utc(start)
           end_time == Utc(start + dur)
           free == {i \in 1..MaxReservations : \A r \in reservations : r.id # i}
       IN  /\ free # {}
           /\ start_time.instant < end_time.instant
           /\ dur >= reservation_min_duration
           /\ dur <= reservation_max_duration
           /\ cpu_quota >= 0 /\ cpu_quota <= 100
           /\ ~CheckConflict(reservations, start_time, end_time)
           /\ reservations' = reservations \cup
                 {[id |-> CHOOSE i \in free : \A j \in free : i <= j,
                   start_time |-> IsoFormat(start_time),
                   end_time |-> IsoFormat(end_time),
                   cpu_quota |-> Pct(cpu_quota), priority |-> priority,
                   enabled |-> TRUE]}
           /\ UNCHANGED <<now, data_points, sum_usage, peak_periods,
                          current_peak_start, current_cpu_limit,
                          last_adjustment_time, cgroup_limit, last, solverVars, hostVars, managedVars, serviceVars>>

\* QuotaManager.delete_reservation
DeleteReservation ==
    \E r \in reservations :
        /\ reservations' = reservations \ {r}
        /\ UNCHANGED <<now, data_points, sum_usage, peak_periods,
                       current_peak_start, current_cpu_limit,
                       last_adjustment_time, cgroup_limit, last, solverVars, hostVars, managedVars, serviceVars>>

Next == Tick \/ CreateReservation \/ DeleteReservation

Spec == Init /\ [][Next]_vars

\* The loop under any configured monitoring_interval.
MonitoringIntervals == 1..MaxInterval

InitInterval ==
    /\ now = 0
    /\ data_points = <<>>
    /\ sum_usage = 0
    /\ peak_periods = <<>>
    /\ current_peak_start = None
    /\ current_cpu_limit = limits_absolute_max_cpu
    /\ last_adjustment_time = None
    /\ cgroup_limit = None
    /\ reservations = {}
    /\ last = NoTick
    /\ InitSolver
    /\ monitoring_interval \in MonitoringIntervals
    /\ host = GoodHost
    /\ initialized = FALSE
    /\ cgroup_dir = FALSE
    /\ cpu_max = NoFile
    /\ monitoring_saved = None
    /\ peak_run = 0
    /\ probe = NoProbe
    /\ call = NoCall
    /\ InitManaged

NextInterval == Tick

SpecInterval == InitInterval /\ [][NextInterval]_vars

\* PeakWindow.update called on its own, one sample every monitoring_interval
PeakWindowUpdate ==
    /\ now < MaxPeakTime
    /\ \E cpu \in CpuValues :
          LET t  == now + monitoring_interval
              pw == PeakUpdate(peak_periods, current_peak_start, cpu, t)
          IN  /\ now' = t
              /\ peak_periods' = pw.pp
              /\ current_peak_start' = pw.start
              /\ peak_run' = IF cpu >= limits_peak_threshold
                             THEN peak_run + 1 ELSE 0
              /\ probe' = [NoProbe EXCEPT !.op = "update",
                                          !.impl = "PeakWindow", !.arg = cpu]
    /\ UNCHANGED <<data_points, sum_usage, current_cpu_limit,
                   last_adjustment_time, cgroup_limit, reservations, last,
                   solverVars, monitoring_interval, host, initialized,
                   cgroup_dir, cpu_max, monitoring_saved, call, managedVars, serviceVars>>

NextPeak == PeakWindowUpdate

SpecPeak == InitInterval /\ [][NextPeak]_vars

\* The actuators called directly.  A run uses one implementation: "utils"
\* (utils/cgroup_manager.py), "main" (main.py) or "limiter" (cpu_limiter.py).
Hosts == [euid_root : BOOLEAN, cgroup_root : BOOLEAN,
          cpu_controller : BOOLEAN, cpu_count : 1..MaxCpus]

\* Percentages passed to set_cpu_limit, in fine units: below 0, 0, under the
\* configured minimum, whole, fractional, 100 and above 100
ActuatorInputs ==
    {0 - Fine(Pct(1)), 0, Fine(Pct(3)), Fine(Pct(29)), Fine(Pct(50)) + 7,
     Fine(Pct(100)), Fine(Pct(120))}

InitActuator ==
    /\ now = 0
    /\ data_points = <<>>
    /\ sum_usage = 0
    /\ peak_periods = <<>>
    /\ current_peak_start = None
    /\ current_cpu_limit = limits_absolute_max_cpu
    /\ last_adjustment_time = None
    /\ cgroup_limit = None
    /\ reservations = {}
    /\ last = NoTick
    /\ InitSolver
    /\ monitoring_interval = 1
    /\ host \in Hosts
    /\ initialized = FALSE
    /\ cgroup_dir = FALSE
    /\ cpu_max = NoFile
    /\ monitoring_saved = None
    /\ peak_run = 0
    /\ probe = NoProbe
    /\ call = NoCall
    /\ InitManaged

Uses(impl) == probe.impl \in {"none", impl}

Probed(op, impl) ==
    [probe EXCEPT !.op = op, !.prev = probe.op, !.impl = impl,
                  !.before = cpu_max, !.dir_before = cgroup_dir]

ActuatorUnchanged ==
    UNCHANGED <<now, data_points, sum_usage, peak_periods, current_peak_start,
                current_cpu_limit, last_adjustment_time, reservations, last,
                solverVars, monitoring_interval, host, monitoring_saved,
                peak_run, call, managedVars, serviceVars>>

\* utils CGroupManager.initialize
ActInitialize ==
    /\ Uses("utils")
    /\ LET i == CGroupInitialize(CGroupState)
       IN  /\ initialized' = i.c.initialized
           /\ cgroup_dir' = i.c.cgroup_dir
           /\ cpu_max' = i.c.cpu_max
           /\ cgroup_limit' = i.c.current_limit
           /\ probe' = [Probed("initialize", "utils") EXCEPT !.ret = i.ret]
    /\ ActuatorUnchanged

\* utils CGroupManager.set_cpu_limit
ActSetCpuLimit ==
    /\ Uses("utils")
    /\ \E limit \in ActuatorInputs, ok \in BOOLEAN :
          LET r == CGroupSetCpuLimit(CGroupState, limit, ok)
          IN  /\ initialized' = r.c.initialized
              /\ cgroup_dir' = r.c.cgroup_dir
              /\ cpu_max' = r.c.cpu_max
              /\ cgroup_limit' = r.c.current_limit
              /\ probe' = [Probed("set", "utils") EXCEPT !.arg = limit,
                                                         !.ret = r.ret]
    /\ ActuatorUnchanged

\* utils CGroupManager.get_current_limit
ActGetCurrentLimit ==
    /\ Uses("utils")
    /\ probe' = [Probed("get", "utils") EXCEPT
                   !.got = CGroupGetCurrentLimit(CGroupState)]
    /\ UNCHANGED <<initialized, cgroup_dir, cpu_max, cgroup_limit>>
    /\ ActuatorUnchanged

\* utils CGroupManager.remove_cpu_limit
ActRemoveCpuLimit ==
    /\ Uses("utils")
    /\ \E ok \in BOOLEAN :
          LET r == CGroupRemoveCpuLimit(CGroupState, ok)
          IN  /\ cpu_max' = r.c.cpu_max
              /\ cgroup_limit' = r.c.current_limit
              /\ probe' = [Probed("remove", "utils") EXCEPT !.ret = r.ret]
    /\ UNCHANGED <<initialized, cgroup_dir>>
    /\ ActuatorUnchanged

\* main.py init_cgroup_management and cpu_limiter.py setup_cgroup: the
\* manager is only built by root on a cgroup v2 machine; setup makes the
\* directory, which the kernel populates
ActSetup ==
    /\ \E impl \in {"main", "limiter"} :
          /\ Uses(impl)
          /\ probe' = [Probed("setup", impl) EXCEPT !.ret = TRUE]
    /\ host.euid_root /\ host.cgroup_root
    /\ cgroup_dir' = TRUE
    /\ cpu_max' = IF cgroup_dir THEN cpu_max
                  ELSE IF host.cpu_controller THEN MaxPeriod(cpu_period)
                  ELSE NoFile
    /\ UNCHANGED <<initialized, cgroup_limit>>
    /\ ActuatorUnchanged

\* main.py CGroupManager.set_cpu_limit
ActMainSetCpuLimit ==
    /\ Uses("main") /\ probe.impl = "main"
    /\ \E cpu_percent \in ActuatorInputs, ok \in BOOLEAN :
          LET file == MainSetCpuLimit(cpu_max, cpu_percent, ok)
          IN  /\ cpu_max' = file
              /\ probe' = [Probed("set", "main") EXCEPT
                             !.arg = cpu_percent,
                             !.ret = (ok /\ cpu_max.form # "absent")]
    /\ UNCHANGED <<initialized, cgroup_dir, cgroup_limit>>
    /\ ActuatorUnchanged

\* main.py CGroupManager.get_current_limit
ActMainGetCurrentLimit ==
    /\ Uses("main") /\ probe.impl = "main"
    /\ probe' = [Probed("get", "main") EXCEPT
                   !.got = MainGetCurrentLimit(cpu_max)]
    /\ UNCHANGED <<initialized, cgroup_dir, cpu_max, cgroup_limit>>
    /\ ActuatorUnchanged

\* cpu_limiter.py CGroupCPULimiter.set_cpu_limit
ActLimiterSetCpuLimit ==
    /\ Uses("limiter") /\ probe.impl = "limiter"
    /\ \E cpu_percent \in ActuatorInputs, ok \in BOOLEAN :
          LET file == LimiterSetCpuLimit(cpu_max, cpu_percent, ok)
          IN  /\ cpu_max' = file
              /\ probe' = [Probed("set", "limiter") EXCEPT
                             !.arg = cpu_percent,
                             !.ret = (ok /\ cpu_max.form # "absent")]
    /\ UNCHANGED <<initialized, cgroup_dir, cgroup_limit>>
    /\ ActuatorUnchanged

NextActuator ==
    \/ ActInitialize \/ ActSetCpuLimit \/ ActGetCurrentLimit
    \/ ActRemoveCpuLimit \/ ActSetup \/ ActMainSetCpuLimit
    \/ ActMainGetCurrentLimit \/ ActLimiterSetCpuLimit

SpecActuator == InitActuator /\ [][NextActuator]_vars

\* The core loop on a machine where it does not run as root, with the
\* actuator also called directly (the API reads the limit).
UnprivilegedHost == [GoodHost EXCEPT !.euid_root = FALSE]

InitDegraded ==
    /\ InitActuator
    /\ host = UnprivilegedHost

NextDegraded ==
    Tick \/ ActInitialize \/ ActSetCpuLimit \/ ActGetCurrentLimit

SpecDegraded == InitDegraded /\ [][NextDegraded]_vars

\* The members of the cgroup: add_process and sync_all_processes called
\* directly on a machine with some process table.
InitProcs ==
    /\ InitActuator
    /\ host = GoodHost

ProcsUnchanged ==
    UNCHANGED <<now, data_points, sum_usage, peak_periods, current_peak_start,
                current_cpu_limit, last_adjustment_time, reservations, last,
                solverVars, monitoring_interval, host, monitoring_saved,
                peak_run, call, monitor, serviceVars>>

\* the processes the machine runs, as the scans and writes find them
ProcsChange ==
    /\ procs = NoProcs
    /\ procs' \in ProcessTables
    /\ UNCHANGED <<cgroup_procs, sync, probe, initialized, cgroup_dir,
                   cpu_max, cgroup_limit>>
    /\ ProcsUnchanged

\* main.py CGroupManager.add_process
ActMainAddProcess ==
    /\ Uses("main") /\ probe.impl = "main"
    /\ \E proc \in procs, allowed \in BOOLEAN :
          /\ probe' = [Probed("add", "main") EXCEPT
                         !.arg = proc.pid,
                         !.ret = MainAddProcess(proc, allowed),
                         !.errno = WriteProcs(proc, allowed)]
          /\ cgroup_procs' = IF MainAddProcess(proc, allowed)
                             THEN cgroup_procs \cup {proc.pid}
                             ELSE cgroup_procs
    /\ UNCHANGED <<procs, sync, initialized, cgroup_dir, cpu_max, cgroup_limit>>
    /\ ProcsUnchanged

\* utils CGroupManager.add_process
ActAddProcess ==
    /\ Uses("utils")
    /\ \E proc \in procs, allowed \in BOOLEAN :
          LET r == CGroupAddProcess(CGroupState, proc, allowed)
          IN  /\ initialized' = r.c.initialized
              /\ cgroup_dir' = r.c.cgroup_dir
              /\ cpu_max' = r.c.cpu_max
              /\ cgroup_limit' = r.c.current_limit
              /\ probe' = [Probed("add", "utils") EXCEPT
                             !.arg = proc.pid, !.ret = r.ret,
                             !.errno = IF r.wrote
                                       THEN WriteProcs(proc, allowed)
                                       ELSE "none"]
              /\ cgroup_procs' = IF r.ret THEN cgroup_procs \cup {proc.pid}
                                 ELSE cgroup_procs
    /\ UNCHANGED <<procs, sync>>
    /\ ProcsUnchanged

\* main.py CGroupManager.sync_all_processes
ActSyncAllProcesses ==
    /\ Uses("main") /\ probe.impl = "main"
    /\ \E allowed \in SUBSET (OtherPids \cup {current_pid}) :
          LET stats == SyncAllProcesses(procs, allowed)
          IN  /\ sync' = stats
              /\ cgroup_procs' = cgroup_procs \cup stats.added_pids
              /\ probe' = Probed("sync", "main")
    /\ UNCHANGED <<procs, initialized, cgroup_dir, cpu_max, cgroup_limit>>
    /\ ProcsUnchanged

NextProcs ==
    \/ ProcsChange \/ ActSetup \/ ActMainAddProcess \/ ActAddProcess
    \/ ActSyncAllProcesses

SpecProcs == InitProcs /\ [][NextProcs]_vars

\* main.py from startup to shutdown: lifespan starts the tasks, the
\* monitor task iterates, lifespan shuts down.
MonitorHosts ==
    {GoodHost, UnprivilegedHost, [GoodHost EXCEPT !.cpu_controller = FALSE]}

MonitorTable ==
    BaseProcs \cup
      {Process(current_pid + 1,
               [name |-> "python", username |-> "app", cmdline |-> TRUE],
               FALSE)}

\* what get_scheduler_status reports in a tick (fine units)
SafeLimits == {Fine(Pct(20)), Fine(Pct(30))}

ObservedCpus == {Fine(Pct(25)), Fine(Pct(45))}

InitMonitor ==
    /\ now = 0
    /\ data_points = <<>>
    /\ sum_usage = 0
    /\ peak_periods = <<>>
    /\ current_peak_start = None
    /\ current_cpu_limit = limits_absolute_max_cpu
    /\ last_adjustment_time = None
    /\ cgroup_limit = None
    /\ reservations = {}
    /\ last = NoTick
    /\ InitSolver
    /\ monitoring_interval = 1
    /\ host \in MonitorHosts
    /\ initialized = FALSE
    /\ cgroup_dir = FALSE
    /\ cpu_max = NoFile
    /\ monitoring_saved = None
    /\ peak_run = 0
    /\ probe = NoProbe
    /\ call = NoCall
    /\ procs = MonitorTable
    /\ cgroup_procs = {}
    /\ sync = NoSync
    /\ monitor = NoMonitor
    /\ InitService

MonitorUnchanged ==
    UNCHANGED <<data_points, sum_usage, peak_periods, current_peak_start,
                current_cpu_limit, last_adjustment_time, cgroup_limit,
                reservations, last, solverVars, monitoring_interval, host,
                initialized, monitoring_saved, peak_run, probe, call, procs,
                serviceVars>>

\* lifespan up to its yield: init_cgroup_management, then the tasks are
\* created; the monitor task returns at once when not in managed mode
LifespanStartup ==
    /\ monitor.task = "none" /\ ~monitor.shut_down
    /\ \E allowed \in SUBSET (OtherPids \cup {current_pid}), io_ok \in BOOLEAN,
          configured \in {30, 60}, interval \in {4, 15}, boot \in {0, 100} :
          LET r == InitCgroupManagement(host, procs, allowed, io_ok)
          IN  /\ monitor' = [monitor EXCEPT
                               !.managed = r.managed,
                               !.task = IF r.managed THEN "running"
                                        ELSE "returned",
                               !.process_sync_interval_seconds = configured,
                               !.adjust_interval = interval,
                               !.boot = boot,
                               !.last_sync_at = now]
              /\ cgroup_dir' = r.dir
              /\ cpu_max' = r.file
              /\ cgroup_procs' = r.members
              /\ sync' = r.stats
    /\ UNCHANGED now
    /\ MonitorUnchanged

\* one iteration of monitor_and_adjust_cpu_limit and the sleep after it
MonitorTick ==
    /\ monitor.task = "running" /\ ~monitor.shut_down
    /\ now < MaxMonitorTime
    /\ \E safe_limit \in SafeLimits, current_cpu \in ObservedCpus,
          allowed \in SUBSET (OtherPids \cup {current_pid}),
          io_ok \in BOOLEAN, db_ok \in BOOLEAN, log_ok \in BOOLEAN :
          LET r == MonitorIteration(monitor, now, safe_limit, current_cpu,
                                    procs, allowed, io_ok, db_ok, log_ok)
          IN  /\ monitor' = r.m
              /\ cpu_max' = r.file
              /\ sync' = r.stats
              /\ cgroup_procs' = r.members
              /\ now' = IF r.m.task = "running" THEN now + r.sleep ELSE now
    /\ UNCHANGED cgroup_dir
    /\ MonitorUnchanged

\* lifespan after its yield: background_task_running = False, the tasks
\* are cancelled (they wait in asyncio.sleep), then cleanup() in managed
\* mode: each member is written to the root cgroup.procs (a write that
\* fails is passed over) and rmdir is tried
LifespanShutdown ==
    /\ monitor.task # "none" /\ ~monitor.shut_down
    /\ \E moved \in SUBSET cgroup_procs :
          LET left == cgroup_procs \ moved
              gone == monitor.managed /\ cgroup_dir /\ left = {}
          IN  /\ monitor' = [monitor EXCEPT
                               !.shut_down = TRUE,
                               !.task = IF monitor.task = "running"
                                        THEN "cancelled" ELSE monitor.task,
                               !.cleaned = monitor.managed]
              /\ cgroup_procs' = IF monitor.managed /\ cgroup_dir THEN left
                                 ELSE cgroup_procs
              /\ cgroup_dir' = IF gone THEN FALSE ELSE cgroup_dir
              /\ cpu_max' = IF gone THEN NoFile ELSE cpu_max
    /\ UNCHANGED <<now, sync>>
    /\ MonitorUnchanged

NextMonitor == LifespanStartup \/ MonitorTick \/ LifespanShutdown

SpecMonitor == InitMonitor /\ [][NextMonitor]_vars

\* core CPUScheduler from start() to stop(), one action per await of
\* _schedule_loop: the task is suspended at collect_metrics, at
\* get_active_reservation inside _calculate_available_quota, at the insert
\* of _log_schedule_action, at the insert of _save_monitoring_data or at
\* asyncio.sleep, and stop() cancels it wherever it is suspended.
SchedUnchanged ==
    UNCHANGED <<reservations, last, solverVars, monitoring_interval, host,
                probe, call, managedVars, stored, status, creating, sampler>>

\* start(): _running, initialize() when cgroup_enabled, create_task
StartScheduler ==
    /\ ~sched.running /\ sched.task = "none"
    /\ LET i == CGroupInitialize(CGroupState)
       IN  /\ initialized' = i.c.initialized
           /\ cgroup_dir' = i.c.cgroup_dir
           /\ cpu_max' = i.c.cpu_max
           /\ cgroup_limit' = i.c.current_limit
    /\ sched' = [sched EXCEPT !.running = TRUE, !.task = "running",
                              !.pc = "collect"]
    /\ UNCHANGED <<now, data_points, sum_usage, peak_periods,
                   current_peak_start, current_cpu_limit,
                   last_adjustment_time, monitoring_saved, peak_run>>
    /\ SchedUnchanged

\* The core loop on a machine whose cgroup setup changes while the service
\* runs: the cgroup2 hierarchy gets mounted, or the cpu controller gets
\* delegated, after which the kernel shows cpu.max in an existing group.
InitRecover ==
    /\ InitActuator
    /\ host.cpu_count = 1

EnvironmentAllows ==
    /\ ~(host.cgroup_root /\ host.cpu_controller)
    /\ host' = [host EXCEPT !.cgroup_root = TRUE, !.cpu_controller = TRUE]
    /\ cpu_max' = IF cgroup_dir /\ cpu_max.form = "absent"
                  THEN MaxPeriod(cpu_period) ELSE cpu_max
    /\ UNCHANGED <<now, data_points, sum_usage, peak_periods,
                   current_peak_start, current_cpu_limit,
                   last_adjustment_time, cgroup_limit, reservations, last,
                   solverVars, monitoring_interval, initialized, cgroup_dir,
                   monitoring_saved, peak_run, probe, call, managedVars,
                   serviceVars>>

\* an iteration of the loop of a scheduler that was started
StartedTick == sched.running /\ Tick

NextRecover == StartScheduler \/ StartedTick \/ EnvironmentAllows

SpecRecover == InitRecover /\ [][NextRecover]_vars

\* collect_metrics returns the sample, both windows take it, and the task
\* waits for the reservation lookup; a collector that raises sends the
\* loop to its except branch and the sleep there
StepCollect ==
    /\ sched.task = "running" /\ sched.pc = "collect"
    /\ \E cpu \in CpuValues, ok \in BOOLEAN :
          LET sw == AddDataPoint(data_points, sum_usage, cpu, now)
              pw == PeakUpdate(peak_periods, current_peak_start, cpu, now)
          IN  IF ok
              THEN /\ data_points' = sw.dp
                   /\ sum_usage' = sw.sum
                   /\ peak_periods' = pw.pp
                   /\ current_peak_start' = pw.start
                   /\ peak_run' = IF cpu >= limits_peak_threshold
                                  THEN peak_run + 1 ELSE 0
                   /\ sched' = [sched EXCEPT
                                  !.pc = "quota",
                                  !.tick = [NoLoopTick EXCEPT
                                              !.sampled = TRUE,
                                              !.timestamp = now,
                                              !.cpu = cpu,
                                              !.before = current_cpu_limit,
                                              !.before_adj = last_adjustment_time]]
              ELSE /\ sched' = [sched EXCEPT !.pc = "sleep",
                                             !.tick = NoLoopTick]
                   /\ UNCHANGED <<data_points, sum_usage, peak_periods,
                                  current_peak_start, peak_run>>
    /\ UNCHANGED <<now, current_cpu_limit, last_adjustment_time, cgroup_limit,
                   initialized, cgroup_dir, cpu_max, monitoring_saved>>
    /\ SchedUnchanged

\* the lookup returns: _calculate_cpu_limit and _adjust_cpu_limit up to the
\* await of _log_schedule_action (reached only when set_cpu_limit returned
\* True) or, past it, up to the await of _save_monitoring_data
StepAdjust ==
    /\ sched.task = "running" /\ sched.pc = "quota"
    /\ \E ok \in BOOLEAN :
          LET t    == sched.tick.timestamp
              avgr == AvgRemainingQuota(data_points, sum_usage,
                                        limits_avg_max_usage)
              pkr  == PeakRemainingQuota(peak_periods, current_peak_start, now,
                                         limits_peak_max_duration)
              resq == ReservationQuota(reservations, now)
              new_limit == CalculateCpuLimit(avgr, pkr, resq)
              proceed   == /\ ~ChangeTooSmall(current_cpu_limit, new_limit)
                           /\ ~TooSoon(last_adjustment_time, now)
              smoothed  == SmoothedLimit(current_cpu_limit, new_limit)
              attempted == proceed /\ cgroup_enabled
              act       == CGroupSetCpuLimit(CGroupState, Fine(smoothed), ok)
              c2        == IF attempted THEN act.c ELSE CGroupState
              wrote     == attempted /\ act.ret
          IN  /\ current_cpu_limit' = IF wrote THEN smoothed
                                      ELSE current_cpu_limit
              /\ last_adjustment_time' = IF wrote THEN now
                                         ELSE last_adjustment_time
              /\ cgroup_limit' = c2.current_limit
              /\ initialized' = c2.initialized
              /\ cgroup_dir' = c2.cgroup_dir
              /\ cpu_max' = c2.cpu_max
              /\ sched' = [sched EXCEPT
                             !.pc = IF wrote THEN "log" ELSE "save",
                             !.tick = [sched.tick EXCEPT
                                         !.solved = TRUE,
                                         !.attempted = attempted,
                                         !.wrote = wrote]]
    /\ UNCHANGED <<now, data_points, sum_usage, peak_periods,
                   current_peak_start, monitoring_saved, peak_run>>
    /\ SchedUnchanged

\* _log_schedule_action: the insert into schedule_logs; an exception of
\* the store is logged and swallowed
StepLog ==
    /\ sched.task = "running" /\ sched.pc = "log"
    /\ \E db_ok \in BOOLEAN :
          sched' = [sched EXCEPT
                      !.pc = "save",
                      !.schedule_logs = IF db_ok THEN @ + 1 ELSE @,
                      !.tick = [sched.tick EXCEPT !.logged = db_ok]]
    /\ UNCHANGED <<now, data_points, sum_usage, peak_periods,
                   current_peak_start, current_cpu_limit,
                   last_adjustment_time, cgroup_limit, initialized,
                   cgroup_dir, cpu_max, monitoring_saved, peak_run>>
    /\ SchedUnchanged

\* _save_monitoring_data: the insert into monitoring_data, exceptions
\* swallowed alike; then the task waits in asyncio.sleep
StepSave ==
    /\ sched.task = "running" /\ sched.pc = "save"
    /\ \E db_ok \in BOOLEAN :
          /\ monitoring_saved' = IF db_ok THEN sched.tick.timestamp
                                 ELSE monitoring_saved
          /\ sched' = [sched EXCEPT
                         !.pc = "sleep",
                         !.tick = [sched.tick EXCEPT !.saved = db_ok]]
    /\ UNCHANGED <<now, data_points, sum_usage, peak_periods,
                   current_peak_start, current_cpu_limit,
                   last_adjustment_time, cgroup_limit, initialized,
                   cgroup_dir, cpu_max, peak_run>>
    /\ SchedUnchanged

\* asyncio.sleep(monitoring_interval) returns
StepSleep ==
    /\ sched.task = "running" /\ sched.pc = "sleep"
    /\ now < MaxLoopTime
    /\ now' = now + monitoring_interval
    /\ sched' = [sched EXCEPT !.pc = "collect"]
    /\ UNCHANGED <<data_points, sum_usage, peak_periods, current_peak_start,
                   current_cpu_limit, last_adjustment_time, cgroup_limit,
                   initialized, cgroup_dir, cpu_max, monitoring_saved,
                   peak_run>>
    /\ SchedUnchanged

\* stop(): _running = False, task.cancel(), await the task.  The
\* CancelledError is raised at the await the task is suspended at and the
\* loop breaks; nothing else is done
StopScheduler ==
    /\ sched.running /\ sched.task = "running"
    /\ sched' = [sched EXCEPT !.running = FALSE, !.task = "done",
                              !.stopped_at = sched.pc]
    /\ UNCHANGED <<now, data_points, sum_usage, peak_periods,
                   current_peak_start, current_cpu_limit,
                   last_adjustment_time, cgroup_limit, initialized,
                   cgroup_dir, cpu_max, monitoring_saved, peak_run>>
    /\ SchedUnchanged

NextSchedule ==
    \/ StartScheduler \/ StepCollect \/ StepAdjust \/ StepLog
    \/ StepSave \/ StepSleep \/ StopScheduler

SpecSchedule == Init /\ [][NextSchedule]_vars

\* PUT /api/config/system.  The bodies sent: the defaults with one field
\* set to a value at or next to an end of its range
ConfigUpdates ==
    {[DefaultConfig EXCEPT !.min_load_percent = v] : v \in {0 - 1, 0, 100, 101}}
    \cup {[DefaultConfig EXCEPT !.max_load_percent = v] : v \in {0 - 1, 5, 100, 101}}
    \cup {[DefaultConfig EXCEPT !.rolling_window_hours = v] : v \in {0, 1, 48, 49}}
    \cup {[DefaultConfig EXCEPT !.avg_load_limit_percent = v] :
             v \in {0 - 1, 0, 100, 101}}
    \cup {[DefaultConfig EXCEPT !.history_retention_days = v] : v \in {0, 30}}
    \cup {[DefaultConfig EXCEPT !.metrics_interval_seconds = v] :
             v \in {0, 1, 60, 61}}
    \cup {[DefaultConfig EXCEPT !.safety_factor = v] : v \in {49, 50, 100, 101}}
    \cup {[DefaultConfig EXCEPT !.startup_safety_factor = v] :
             v \in {49, 50, 100, 101}}
    \cup {[DefaultConfig EXCEPT !.startup_data_threshold_percent = v] :
             v \in {0, 1, 50, 51}}

\* the checks of update_system_config, in their order: TRUE when none of
\* them raises HTTPException(400)
ConfigAccepted(u) ==
    /\ ~(u.min_load_percent < 0 \/ u.min_load_percent > 100)
    /\ ~(u.max_load_percent < 0 \/ u.max_load_percent > 100)
    /\ ~(u.min_load_percent > u.max_load_percent)
    /\ ~(u.rolling_window_hours < 1)
    /\ ~(u.avg_load_limit_percent < 0 \/ u.avg_load_limit_percent > 100)
    /\ ~(u.safety_factor < 50 \/ u.safety_factor > 100)
    /\ ~(u.startup_safety_factor < 50 \/ u.startup_safety_factor > 100)
    /\ ~(u.startup_data_threshold_percent < 1
           \/ u.startup_data_threshold_percent > 50)

\* update_system_config, then config.update_batch(config_update.dict())
UpdateSystemConfig ==
    /\ \E u \in ConfigUpdates :
          stored' = [config |-> IF ConfigAccepted(u) THEN u ELSE stored.config,
                     request |-> u,
                     before |-> stored.config,
                     status_code |-> IF ConfigAccepted(u) THEN 200 ELSE 400]
    /\ UNCHANGED <<now, coreVars, solverVars, hostVars, managedVars, sched,
                   status, creating, sampler>>

NextConfig == UpdateSystemConfig

SpecConfig == Init /\ [][NextConfig]_vars

\* QuotaManager called directly, one call at a time: the API handlers of
\* api/routes.py and the loop's lookup.  A datetime argument carries the
\* UTC offset the client sent.
StoreTimes == 0..MaxStoreTime

StoreDurations == {0, 1, 2}

StorePriorities == {3, 5}

\* create_reservation: the id returned (None on failure) and the table after
CreateReservationCall(rows, start_time, end_time, cpu_quota, priority) ==
    LET dur  == end_time.instant - start_time.instant
        free == {i \in 1..MaxStoreRows : \A r \in rows : r.id # i}
        id   == CHOOSE i \in free : \A j \in free : i <= j
    IN  IF \/ start_time.instant >= end_time.instant
           \/ dur < reservation_min_duration
           \/ dur > reservation_max_duration
           \/ cpu_quota < 0 \/ cpu_quota > Pct(100)
           \/ CheckConflict(rows, start_time, end_time)
        THEN [ret |-> None, rows |-> rows]
        ELSE [ret |-> id,
              rows |-> rows \cup
                  {[id |-> id, start_time |-> IsoFormat(start_time),
                    end_time |-> IsoFormat(end_time), cpu_quota |-> cpu_quota,
                    priority |-> priority, enabled |-> TRUE]}]

StoreUnchanged ==
    UNCHANGED <<now, data_points, sum_usage, peak_periods, current_peak_start,
                current_cpu_limit, last_adjustment_time, cgroup_limit, last,
                solverVars, monitoring_interval, host, initialized,
                cgroup_dir, cpu_max, monitoring_saved, peak_run, probe,
                managedVars, serviceVars>>

StoreCreate ==
    /\ Cardinality(reservations) < MaxStoreRows
    /\ \E s \in StoreTimes, dur \in StoreDurations, off \in UtcOffsets,
          priority \in StorePriorities :
          LET start_time == DateTime(s, off)
              end_time   == DateTime(s + dur, off)
              res == CreateReservationCall(reservations, start_time, end_time,
                                           Pct(50), priority)
          IN  /\ s + dur <= MaxStoreTime
              /\ reservations' = res.rows
              /\ call' = [NoCall EXCEPT !.op = "create",
                                        !.start_time = start_time,
                                        !.end_time = end_time,
                                        !.ret = res.ret,
                                        !.before = reservations]
    /\ StoreUnchanged

StoreDelete ==
    /\ \E id \in 1..MaxStoreRows :
          /\ reservations' = {r \in reservations : r.id # id}
          /\ call' = [NoCall EXCEPT !.op = "delete", !.ret = id,
                                    !.before = reservations]
    /\ StoreUnchanged

StoreLookup ==
    /\ \E t \in StoreTimes :
          /\ call' = [NoCall EXCEPT
                         !.op = "get", !.current_time = Utc(t),
                         !.got = GetActiveReservation(reservations, Utc(t)),
                         !.before = reservations]
          /\ UNCHANGED reservations
    /\ StoreUnchanged

NextStore == StoreCreate \/ StoreDelete \/ StoreLookup

SpecStore == Init /\ [][NextStore]_vars

\* create_reservation called by several requests at once.  The call awaits
\* the SELECT of _check_conflict and then the INSERT, so another call can
\* run between the two.  All arguments are UTC datetimes.
RaceUnchanged ==
    UNCHANGED <<now, data_points, sum_usage, peak_periods, current_peak_start,
                current_cpu_limit, last_adjustment_time, cgroup_limit, last,
                solverVars, hostVars, managedVars, sched, stored, status,
                sampler>>

\* create_reservation up to the end of _check_conflict
CreateCheck ==
    /\ \E c \in Callers, s \in StoreTimes, dur \in StoreDurations :
          LET start_time == Utc(s)
              end_time   == Utc(s + dur)
              pending == {o \in Callers : creating[o].pc = "checked"}
              refused == \/ start_time.instant >= end_time.instant
                         \/ dur < reservation_min_duration
                         \/ dur > reservation_max_duration
                         \/ CheckConflict(reservations, start_time, end_time)
          IN  /\ creating[c].pc = "idle"
              /\ s + dur <= MaxStoreTime
              /\ Cardinality(reservations) + Cardinality(pending)
                    < MaxStoreRows
              /\ creating' = [creating EXCEPT ![c] =
                    [pc |-> IF refused THEN "idle" ELSE "checked",
                     start_time |-> start_time, end_time |-> end_time,
                     ret |-> None]]
    /\ UNCHANGED reservations
    /\ RaceUnchanged

\* create_reservation from the INSERT to the return
CreateInsert ==
    /\ \E c \in Callers :
          LET free == {i \in 1..MaxStoreRows :
                          \A r \in reservations : r.id # i}
              id   == CHOOSE i \in free : \A j \in free : i <= j
          IN  /\ creating[c].pc = "checked"
              /\ reservations' = reservations \cup
                    {[id |-> id,
                      start_time |-> IsoFormat(creating[c].start_time),
                      end_time |-> IsoFormat(creating[c].end_time),
                      cpu_quota |-> Pct(50), priority |-> 5,
                      enabled |-> TRUE]}
              /\ creating' = [creating EXCEPT ![c].pc = "idle",
                                              ![c].ret = id]
    /\ RaceUnchanged

NextRace == CreateCheck \/ CreateInsert

SpecRace == Init /\ [][NextRace]_vars

\* SystemMonitor sampling a machine whose disk and network counters grow.
\* Of each counter pair one member is followed (read_bytes, bytes_recv);
\* the other is computed by the same lines.
SamplerUnchanged ==
    UNCHANGED <<coreVars, solverVars, hostVars, managedVars, sched, stored,
                status, creating>>

\* SystemMonitor.__init__ with the monitoring_enable_* settings it finds
NewSystemMonitor ==
    /\ ~sampler.built
    /\ \E enable_disk \in BOOLEAN, enable_network \in BOOLEAN :
          sampler' = [sampler EXCEPT !.built = TRUE,
                                     !.enable_disk = enable_disk,
                                     !.enable_network = enable_network]
    /\ UNCHANGED now
    /\ SamplerUnchanged

\* a second passes; the kernel's counters grow or stay
HostActivity ==
    /\ now < MaxSampleTime
    /\ now' = now + 1
    /\ \E dr \in 0..1, dn \in 0..1 :
          /\ sampler.read_bytes + dr <= MaxBytes
          /\ sampler.bytes_recv + dn <= MaxBytes
          /\ sampler' = [sampler EXCEPT !.read_bytes = @ + dr,
                                        !.bytes_recv = @ + dn]
    /\ SamplerUnchanged

\* the body shared by _get_disk_io_rate and _get_network_rate: counter is
\* psutil's reading, last_io the stored reading of that counter, last_ts
\* the monitor's _last_timestamp; returns the rate and both fields after
IoRate(counter, last_io, last_ts, current_time) ==
    IF last_io = None \/ last_ts = None
    THEN [rate |-> NoRate, last_io |-> counter, last_ts |-> current_time]
    ELSE IF current_time - last_ts <= 0
    THEN [rate |-> NoRate, last_io |-> last_io, last_ts |-> last_ts]
    ELSE [rate |-> [num |-> Max(0, counter - last_io),
                    den |-> current_time - last_ts],
          last_io |-> counter, last_ts |-> current_time]

\* collect_metrics: the disk rate, then the network rate
CollectMetrics ==
    /\ sampler.built
    /\ LET d == IF sampler.enable_disk
                THEN IoRate(sampler.read_bytes, sampler.last_disk_io,
                            sampler.last_timestamp, now)
                ELSE [rate |-> NoRate, last_io |-> sampler.last_disk_io,
                      last_ts |-> sampler.last_timestamp]
           n == IF sampler.enable_network
                THEN IoRate(sampler.bytes_recv, sampler.last_network_io,
                            d.last_ts, now)
                ELSE [rate |-> NoRate, last_io |-> sampler.last_network_io,
                      last_ts |-> d.last_ts]
       IN  sampler' = [sampler EXCEPT
              !.last_disk_io = d.last_io,
              !.last_network_io = n.last_io,
              !.last_timestamp = n.last_ts,
              !.disk_reading =
                 IF sampler.enable_disk
                 THEN [some |-> TRUE, value |-> sampler.read_bytes, at |-> now]
                 ELSE @,
              !.network_reading =
                 IF sampler.enable_network
                 THEN [some |-> TRUE, value |-> sampler.bytes_recv, at |-> now]
                 ELSE @,
              !.sample = [done |-> TRUE, at |-> now,
                          disk_io_read |-> d.rate, network_in |-> n.rate,
                          disk_before |-> sampler.disk_reading,
                          network_before |-> sampler.network_reading]]
    /\ UNCHANGED now
    /\ SamplerUnchanged

NextSampler == NewSystemMonitor \/ HostActivity \/ CollectMetrics

SpecSampler == Init /\ [][NextSampler]_vars

\* The sliding window driven directly: pushes and clears in any order.
NextWindow == WindowPush \/ Clear

SpecWindow == Init /\ [][NextWindow]_vars

NextPush == WindowPushAt \/ Clear

SpecPush == Init /\ [][NextPush]_vars

\* The loop fed a constant sample stream.  The reservation table is what
\* create_reservation may have stored before the loop started; every
\* cpu.max write goes through.
SteadyStores ==
    {{}} \cup
    {{[id |-> 1, start_time |-> IsoFormat(Utc(s)),
       end_time |-> IsoFormat(Utc(s + d)), cpu_quota |-> Pct(q),
       priority |-> p, enabled |-> TRUE]} :
       s \in ResStarts,
       d \in {x \in ResDurations : x >= reservation_min_duration
                                   /\ x <= reservation_max_duration},
       q \in ResQuotas, p \in ResPriorities}

InitSteady ==
    /\ now = 0
    /\ data_points = <<>>
    /\ sum_usage = 0
    /\ peak_periods = <<>>
    /\ current_peak_start = None
    /\ current_cpu_limit = limits_absolute_max_cpu
    /\ last_adjustment_time = None
    /\ cgroup_limit = None
    /\ reservations \in SteadyStores
    /\ last = NoTick
    /\ InitSolver
    /\ InitHost

TickSteady ==
    /\ now < MaxSteadyTime
    /\ \E cpu \in CpuValues :
          /\ data_points # <<>> => cpu = data_points[Len(data_points)].cpu
          /\ ScheduleLoopBody(cpu, TRUE)

NextSteady == TickSteady

SpecSteady == InitSteady /\ [][NextSteady]_vars /\ WF_vars(NextSteady)

-----------------------------------------------------------------------------
(* database.py, scheduler/cpu_scheduler.py : the lookahead solver *)

\* round(x, 2) of the quotient a / b (b > 0), in 0.01 % units
RoundDiv(a, b) == (2 * a + b) \div (2 * b)

\* Database.get_metrics_in_window: rows with timestamp >= now - window
RECURSIVE MetricsInWindow(_, _)
MetricsInWindow(rows, t) ==
    IF rows = <<>> THEN <<>>
    ELSE IF Head(rows).ts >= t - rolling_window
         THEN rows
         ELSE MetricsInWindow(Tail(rows), t)

\* the rows calculate_safe_cpu_limit keeps: m_time > step_end_time
RECURSIVE RemainingMetrics(_, _)
RemainingMetrics(rows, step_end_time) ==
    IF rows = <<>> THEN <<>>
    ELSE IF Head(rows).ts > step_end_time
         THEN rows
         ELSE RemainingMetrics(Tail(rows), step_end_time)

\* _calculate_time_slot_reservation: slots that start in the future, inside
\* the window; each reserves max_load * duration / window
RECURSIVE SlotSum(_, _)
SlotSum(slots, t) ==
    IF slots = {} THEN 0
    ELSE LET slot == CHOOSE x \in slots : TRUE
             counted == /\ slot.enabled
                        /\ slot.start_time > t
                        /\ slot.start_time < t + rolling_window
         IN  (IF counted
              THEN Pct(slot.max_load_percent) * (slot.end_time - slot.start_time)
              ELSE 0) + SlotSum(slots \ {slot}, t)

TimeSlotReservation(slots, t) == RoundDiv(SlotSum(slots, t), rolling_window)

\* safety_factor, or startup_safety_factor while the data covers less than
\* startup_data_threshold_percent of the window
SafetyFactor(actual) ==
    IF actual * 100 < rolling_window * startup_data_threshold_percent
    THEN startup_safety_factor
    ELSE safety_factor

\* _calculate_safe_limit_fallback (with calculate_remaining_quota)
SafeLimitFallback(rows, t, slots) ==
    LET metrics == MetricsInWindow(rows, t)
        n       == Len(metrics)
        avg_cpu == IF n = 0 THEN 0 ELSE RoundDiv(100 * SumCpu(metrics), n)
        actual  == IF n = 0 THEN 0 ELSE t - metrics[1].ts
        dynamic_quota == (avg_load_limit_percent - min_load_percent) * rolling_window
        used_dynamic  == Max(0, avg_cpu * actual - min_load_percent * actual)
        remaining_dynamic == dynamic_quota - used_dynamic
        remaining == Max(0, rolling_window - actual)
        dynamic_limit ==
            IF remaining > 0
            THEN RoundDiv(remaining_dynamic * SafetyFactor(actual),
                          remaining * FactorDen)
            ELSE 0
        dyn1 == Max(0, dynamic_limit - TimeSlotReservation(slots, t))
        safe == min_load_percent + Max(0, dyn1)
    IN  [path |-> "fallback", raw |-> safe,
         limit |-> Min(max_load_percent, safe),
         factor |-> SafetyFactor(actual), count |-> n]

\* faulty variant: the lookahead formula without the quota the kept history used
MaxNextStepNoHistory(n, sumr, remaining, actual) ==
    RoundDiv(SafetyFactor(actual) * avg_load_limit_percent * rolling_window * n,
             FactorDen * adjust_step * n)

\* safe_limit before the slot deduction and the clamp:
\* (avg_limit * window - Q_remaining) / step * safety_factor, where
\* Q_remaining = (sumr / n) * remaining
MaxNextStep(n, sumr, remaining, actual) ==
    RoundDiv(SafetyFactor(actual)
               * (avg_load_limit_percent * rolling_window * n
                    - 100 * sumr * remaining),
             FactorDen * adjust_step * n)

\* calculate_safe_cpu_limit, cache aside
ComputeSafeCpuLimit(rows, t, slots) ==
    LET metrics == MetricsInWindow(rows, t)
    IN  IF adjust_step >= rolling_window THEN SafeLimitFallback(rows, t, slots)
        ELSE IF Len(metrics) < 2 THEN SafeLimitFallback(rows, t, slots)
        ELSE
          LET first_timestamp == metrics[1].ts
              step_end_time   == first_timestamp + adjust_step
              rem             == RemainingMetrics(metrics, step_end_time)
          IN  IF rem = <<>> THEN SafeLimitFallback(rows, t, slots)
              ELSE
                LET remaining == Max(0, t - step_end_time)
                    actual    == t - first_timestamp
                    safe0 == MaxNextStep(Len(rem), SumCpu(rem), remaining, actual)
                    safe1 == Max(0, safe0 - TimeSlotReservation(slots, t))
                IN  [path |-> "lookahead", raw |-> safe1,
                     limit |-> Max(min_load_percent, Min(max_load_percent, safe1)),
                     factor |-> SafetyFactor(actual), count |-> Len(metrics)]

-----------------------------------------------------------------------------
(* State machine of the metrics table and the solver *)

\* The collector stores one sample (Database.insert_metrics) a sampling
\* period after the previous instant.  Rows that have left the window are
\* never selected again and are not kept in the modelled table.
InsertMetrics ==
    /\ now < MaxSolverTime
    /\ \E cpu \in SolverCpuValues :
          metrics_history' =
              Append(MetricsInWindow(metrics_history, now + 1),
                     [ts |-> now + 1, cpu |-> cpu])
    /\ now' = now + 1
    /\ UNCHANGED <<coreVars, hostVars, managedVars, serviceVars, time_slots, safe_limit_cache, cache_timestamp, solved>>

\* A sampling period passes without a stored sample (collector not running)
MissedSample ==
    /\ now < MaxSolverTime
    /\ now' = now + 1
    /\ metrics_history' = MetricsInWindow(metrics_history, now + 1)
    /\ UNCHANGED <<coreVars, hostVars, managedVars, serviceVars, time_slots, safe_limit_cache, cache_timestamp, solved>>

\* calculate_safe_cpu_limit: within the same second the cached value is
\* returned; only the lookahead path refreshes the cache
CalculateSafeCpuLimit ==
    LET hit == safe_limit_cache # None /\ cache_timestamp # None
               /\ now - cache_timestamp < 1
        r   == ComputeSafeCpuLimit(metrics_history, now, time_slots)
    IN  /\ solved' = IF hit
                     THEN [done |-> TRUE, path |-> "cache",
                           limit |-> safe_limit_cache, raw |-> safe_limit_cache,
                           cached |-> TRUE, factor |-> 0, count |-> 0]
                     ELSE [done |-> TRUE, path |-> r.path, limit |-> r.limit,
                           raw |-> r.raw, cached |-> FALSE,
                           factor |-> r.factor, count |-> r.count]
        /\ safe_limit_cache' = IF ~hit /\ r.path = "lookahead"
                               THEN r.limit ELSE safe_limit_cache
        /\ cache_timestamp' = IF ~hit /\ r.path = "lookahead"
                              THEN now ELSE cache_timestamp
        /\ UNCHANGED <<now, coreVars, hostVars, managedVars, serviceVars, metrics_history, time_slots>>

InitLookahead ==
    /\ now = 0
    /\ data_points = <<>>
    /\ sum_usage = 0
    /\ peak_periods = <<>>
    /\ current_peak_start = None
    /\ current_cpu_limit = limits_absolute_max_cpu
    /\ last_adjustment_time = None
    /\ cgroup_limit = None
    /\ reservations = {}
    /\ last = NoTick
    /\ metrics_history = <<>>
    /\ time_slots \in SlotTables
    /\ safe_limit_cache = None
    /\ cache_timestamp = None
    /\ solved = NotSolved
    /\ InitHost

\* get_scheduler_status: the rolling average, the solver (whose cache it
\* refreshes as CalculateSafeCpuLimit does), the latest stored sample, and
\* the margins from them; values in 0.01 %
GetSchedulerStatus ==
    LET metrics == MetricsInWindow(metrics_history, now)
        n       == Len(metrics)
        avg_cpu == IF n = 0 THEN 0 ELSE RoundDiv(100 * SumCpu(metrics), n)
        hit == safe_limit_cache # None /\ cache_timestamp # None
               /\ now - cache_timestamp < 1
        r   == ComputeSafeCpuLimit(metrics_history, now, time_slots)
        safe_limit  == IF hit THEN safe_limit_cache ELSE r.limit
        current_cpu == IF metrics_history = <<>> THEN 0
                       ELSE Pct(metrics_history[Len(metrics_history)].cpu)
    IN  /\ status' = [done |-> TRUE,
                      current_cpu_percent |-> current_cpu,
                      rolling_window_avg_cpu |-> avg_cpu,
                      avg_load_limit |-> avg_load_limit_percent,
                      margin_absolute |-> safe_limit - current_cpu,
                      safe_cpu_limit |-> safe_limit,
                      data_points |-> n]
        /\ solved' = IF hit
                     THEN [done |-> TRUE, path |-> "cache",
                           limit |-> safe_limit_cache, raw |-> safe_limit_cache,
                           cached |-> TRUE, factor |-> 0, count |-> 0]
                     ELSE [done |-> TRUE, path |-> r.path, limit |-> r.limit,
                           raw |-> r.raw, cached |-> FALSE,
                           factor |-> r.factor, count |-> r.count]
        /\ safe_limit_cache' = IF ~hit /\ r.path = "lookahead"
                               THEN r.limit ELSE safe_limit_cache
        /\ cache_timestamp' = IF ~hit /\ r.path = "lookahead"
                              THEN now ELSE cache_timestamp
        /\ UNCHANGED <<now, coreVars, hostVars, managedVars, sched, stored,
                       creating, sampler, metrics_history, time_slots>>

\* The solver under a configuration that changes while the service runs.
\* Of the configuration only max_load_percent is followed: it enters the
\* result in the final clamp of either path and nowhere else.
MaxLoadValues == {50, 90}

\* ConfigManager.set("max_load_percent", value)
SetMaxLoadPercent ==
    /\ \E value \in MaxLoadValues :
          /\ value # stored.config.max_load_percent
          /\ stored' = [stored EXCEPT !.config.max_load_percent = value,
                                      !.before = stored.config]
    /\ UNCHANGED <<now, coreVars, solverVars, hostVars, managedVars, sched,
                   status, creating, sampler>>

\* the clamp of calculate_safe_cpu_limit / _calculate_safe_limit_fallback
\* with max_load read from the configuration cfg
ClampedLimit(r, cfg) ==
    IF r.path = "lookahead"
    THEN Max(min_load_percent, Min(Pct(cfg.max_load_percent), r.raw))
    ELSE Min(Pct(cfg.max_load_percent), r.raw)

\* calculate_safe_cpu_limit: the cache test comes first, the configuration
\* is read after it
CalculateSafeCpuLimitConfigured ==
    LET hit   == safe_limit_cache # None /\ cache_timestamp # None
                 /\ now - cache_timestamp < 1
        r     == ComputeSafeCpuLimit(metrics_history, now, time_slots)
        limit == ClampedLimit(r, stored.config)
    IN  /\ solved' = IF hit
                     THEN [done |-> TRUE, path |-> "cache",
                           limit |-> safe_limit_cache, raw |-> safe_limit_cache,
                           cached |-> TRUE, factor |-> 0, count |-> 0]
                     ELSE [done |-> TRUE, path |-> r.path, limit |-> limit,
                           raw |-> r.raw, cached |-> FALSE,
                           factor |-> r.factor, count |-> r.count]
        /\ safe_limit_cache' = IF ~hit /\ r.path = "lookahead"
                               THEN limit ELSE safe_limit_cache
        /\ cache_timestamp' = IF ~hit /\ r.path = "lookahead"
                              THEN now ELSE cache_timestamp
        /\ UNCHANGED <<now, coreVars, hostVars, managedVars, serviceVars,
                       metrics_history, time_slots>>

NextReconfig ==
    InsertMetrics \/ SetMaxLoadPercent \/ CalculateSafeCpuLimitConfigured

SpecReconfig == InitLookahead /\ [][NextReconfig]_vars

\* the service with its collector running: every period stores a sample
NextStatus == InsertMetrics \/ GetSchedulerStatus

SpecStatus == InitLookahead /\ [][NextStatus]_vars

NextLookahead == InsertMetrics \/ MissedSample \/ CalculateSafeCpuLimit

SpecLookahead == InitLookahead /\ [][NextLookahead]_vars

-----------------------------------------------------------------------------
(* Properties of the core loop *)

\* The value _calculate_cpu_limit would return for the same window state
\* with no reservation
Unreserved == CalculateCpuLimit(last.avg_quota_remaining,
                                last.peak_quota_remaining, None)

\* The two hysteresis conditions of a tick, from the recorded values
HysteresisOpen ==
    /\ Abs(last.new_limit - last.before) >= scheduler_change_threshold
    /\ \/ last.prev_write = None
       \/ now - last.prev_write >= scheduler_adjustment_interval

\* C1: the solver's decision lies in [min_limit, max_limit] in every tick,
\* with or without an active reservation.
C1_SolverWithinLimits ==
    last.ticked =>
        /\ last.new_limit >= limits_absolute_min_cpu
        /\ last.new_limit <= limits_absolute_max_cpu

\* C2: min_limit <= current_limit_pct <= max_limit in every reachable state.
C2_CurrentLimitWithinLimits ==
    /\ current_cpu_limit >= limits_absolute_min_cpu
    /\ current_cpu_limit <= limits_absolute_max_cpu

\* C4: while a reservation with quota q is active the decision is
\* min(unreserved decision, q); with no reservation it is the unreserved one.
C4_ReservationIsMin ==
    last.ticked =>
        last.new_limit =
            IF last.reservation_quota = None THEN Unreserved
            ELSE Min(Unreserved, last.reservation_quota)

\* C5: whenever the peak window's remaining budget is <= the critical
\* threshold the decision is at most emergency_limit, reservation or not.
C5_PeakCriticalForcesEmergency ==
    (last.ticked /\ last.peak_quota_remaining <= limits_peak_critical_threshold)
        => last.new_limit <= scheduler_emergency_cpu_limit

RECURSIVE WritesToSettle(_)
WritesToSettle(gap) ==
    IF gap < scheduler_change_threshold THEN 0
    ELSE 1 + WritesToSettle((gap * (SmoothDen - SmoothNum) + SmoothDen - 1)
                               \div SmoothDen)

SettleWrites == WritesToSettle(limits_absolute_max_cpu)

C9_ReachesEmergencyInOneStep ==
    (/\ current_peak_start # None
     /\ peak_periods = <<>>
     /\ now - current_peak_start >=
            limits_peak_max_duration + scheduler_adjustment_interval)
        => current_cpu_limit = scheduler_emergency_cpu_limit

\* C9 (amended): once the peak budget is used up the decision is
\* emergency_limit (the reservation branch's value while a reservation is
\* active), and a write moves the applied limit one smoothing step towards
\* it; a tick without a write leaves the applied limit alone.
C9_EmergencyDecisionSmoothed ==
    (last.ticked /\ last.peak_quota_remaining = 0) =>
        /\ last.new_limit =
              IF last.reservation_quota = None
              THEN scheduler_emergency_cpu_limit
              ELSE Min(last.reservation_quota, limits_absolute_max_cpu)
        /\ current_cpu_limit =
              IF last.wrote
              THEN (last.before * (SmoothDen - SmoothNum)
                      + last.new_limit * SmoothNum) \div SmoothDen
              ELSE last.before

C9_Witness ==
    /\ last.ticked /\ last.peak_quota_remaining = 0
    /\ last.reservation_quota = None
    /\ last.wrote
    /\ now - current_peak_start >=
            limits_peak_max_duration + scheduler_adjustment_interval
    /\ current_cpu_limit > scheduler_emergency_cpu_limit + scheduler_change_threshold

\* C10: the running sum equals the sum of the entries held, after any
\* sequence of pushes (with eviction at capacity) and clears.
C10_SumIntegrity == sum_usage = SumCpu(data_points)

C10_Witness ==
    /\ Len(data_points) = max_data_points
    /\ data_points[1].ts > 1
    /\ sum_usage > 0

-----------------------------------------------------------------------------
(* Properties of the windows *)

\* SlidingWindow.window_seconds: the capacity is one entry per second of it
window_seconds == max_data_points

\* C11: after a tick's push (which evicts at capacity) no entry of the
\* average window is older than now - H_avg, whatever the tick interval.
C11_NoEntryOlderThanWindow ==
    last.ticked =>
        \A i \in 1..Len(data_points) :
            data_points[i].ts >= now - window_seconds

\* PeakWindow.get_total_peak_duration read at the current instant
TotalPeakSeconds == TotalPeakDuration(peak_periods, current_peak_start, now)

\* C12: total_peak_seconds never exceeds H_peak (peak_window_seconds) in
\* any reachable state, in particular not while samples stay at or above
\* the peak threshold for longer than H_peak.
C12_PeakTotalWithinWindow == TotalPeakSeconds <= peak_window_seconds

\* The time the latest samples have been held at or above the threshold,
\* each sample standing for one monitoring_interval
HeldSeconds == peak_run * monitoring_interval

\* C13: from an empty peak window, while samples are held at or above the
\* threshold for d <= H_peak, total_peak_seconds is the time from the first
\* to the latest sample of the run, which is d within one tick interval.
C13_PeakTotalTracksRun ==
    (peak_run >= 1 /\ peak_periods = <<>> /\ HeldSeconds <= peak_window_seconds)
        => /\ TotalPeakSeconds = (peak_run - 1) * monitoring_interval
           /\ TotalPeakSeconds >= HeldSeconds - monitoring_interval
           /\ TotalPeakSeconds <= HeldSeconds + monitoring_interval

C13_Witness ==
    /\ peak_run >= 3
    /\ peak_periods = <<>>
    /\ HeldSeconds <= peak_window_seconds
    /\ TotalPeakSeconds >= 2
    /\ now > HeldSeconds

\* The closed spans an update at time t keeps: those that started no
\* earlier than t - H_peak
KeptSpans(pp, t) ==
    SelectSeq(pp, LAMBDA q : q.start_time >= t - peak_window_seconds)

\* C14 (as claimed): after every update an open span exists iff the sample
\* is a peak; a peak sample with a span open leaves its start unchanged; a
\* below-threshold sample with no span open changes nothing.
C14_UpdateTransitions ==
    [][now' # now =>
         LET is_peak == probe'.arg >= limits_peak_threshold
         IN  /\ (current_peak_start' # None) <=> is_peak
             /\ (is_peak /\ current_peak_start # None)
                    => current_peak_start' = current_peak_start
             /\ (~is_peak /\ current_peak_start = None)
                    => /\ current_peak_start' = None
                       /\ peak_periods' = peak_periods]_vars

\* C14 (amended): as above, except that every update also drops the closed
\* spans that started before ts - H_peak: a below-threshold sample with no
\* span open opens and closes nothing, a peak sample closes nothing, and
\* only a below-threshold sample with a span open adds a closed span (the
\* one open span, from its start to ts).
C14_UpdateTransitionsWithCleanup ==
    [][now' # now =>
         LET is_peak == probe'.arg >= limits_peak_threshold
         IN  /\ (current_peak_start' # None) <=> is_peak
             /\ (is_peak /\ current_peak_start # None)
                    => current_peak_start' = current_peak_start
             /\ (is_peak /\ current_peak_start = None)
                    => current_peak_start' = now'
             /\ (is_peak \/ current_peak_start = None)
                    => peak_periods' = KeptSpans(peak_periods, now')
             /\ (~is_peak /\ current_peak_start # None)
                    => peak_periods' =
                          KeptSpans(Append(peak_periods,
                                           [start_time |-> current_peak_start,
                                            duration |-> now' - current_peak_start]),
                                    now')]_vars

\* a below-threshold sample arrived with no span open (the latest span was
\* closed by an earlier sample) once the oldest span of the run has expired
C14_Witness ==
    /\ probe.op = "update" /\ probe.arg < limits_peak_threshold
    /\ current_peak_start = None
    /\ peak_periods # <<>>
    /\ peak_periods[Len(peak_periods)].start_time
          + peak_periods[Len(peak_periods)].duration < now
    /\ now > peak_window_seconds + 2

-----------------------------------------------------------------------------
(* Properties of the reservation store *)

\* C15: get_active_reservation(t) returns none exactly when no enabled
\* reservation has start <= t <= end (as instants); otherwise it returns an
\* enabled reservation covering t of the highest priority and, among those,
\* of the earliest start; the lookup leaves the table as it was.
C15_ActiveReservationLookup ==
    call.op = "get" =>
        LET t   == call.current_time.instant
            cov == {r \in call.before :
                      /\ r.enabled
                      /\ FromIsoFormat(r.start_time).instant <= t
                      /\ t <= FromIsoFormat(r.end_time).instant}
        IN  /\ (call.got = {}) <=> (cov = {})
            /\ \A r \in call.got :
                  /\ r \in cov
                  /\ \A o \in cov :
                        \/ r.priority > o.priority
                        \/ /\ r.priority = o.priority
                           /\ FromIsoFormat(r.start_time).instant
                                <= FromIsoFormat(o.start_time).instant
            /\ reservations = call.before

\* C16: after any sequence of create_reservation and delete_reservation
\* calls made one at a time, no two enabled reservations cover a common
\* instant; a create whose range overlaps an enabled reservation returns
\* None and leaves the table as it was.
C16_NoOverlappingReservations ==
    /\ \A r, o \in reservations :
          (r.id # o.id /\ r.enabled /\ o.enabled) =>
              \/ FromIsoFormat(r.end_time).instant
                    < FromIsoFormat(o.start_time).instant
              \/ FromIsoFormat(o.end_time).instant
                    < FromIsoFormat(r.start_time).instant
    /\ (/\ call.op = "create"
        /\ \E r \in call.before :
              /\ r.enabled
              /\ FromIsoFormat(r.start_time).instant <= call.end_time.instant
              /\ call.start_time.instant <= FromIsoFormat(r.end_time).instant)
       => (call.ret = None /\ reservations = call.before)

-----------------------------------------------------------------------------
(* Properties of the actuators *)

\* C17: for every cpu_pct and every N_cpus >= 1, a set_limit(cpu_pct) whose
\* write goes through leaves cpu.max as "<quota> 100000" with
\* quota = floor(clamp(cpu_pct, 0, 100) * N_cpus * 100000 / 100).
C17_QuotaWritten ==
    (probe.op = "set" /\ probe.ret) =>
        cpu_max = QuotaPeriod(
                     (Max(0, Min(Fine(Pct(100)), probe.arg)) * host.cpu_count)
                        \div FinePerQuota(100000),
                     100000)

\* C18: for every p in [0, 100] and every N_cpus >= 1, set_limit(p)
\* immediately followed by current_limit() returns a value within
\* 100 / period_us * N_cpus of p.
C18_SetThenGetRoundTrip ==
    (/\ probe.op = "get" /\ probe.prev = "set" /\ probe.ret
     /\ probe.arg >= 0 /\ probe.arg <= Fine(Pct(100)))
    => /\ probe.got.some
       /\ Abs(probe.got.num - probe.arg * probe.got.den)
            <= FinePerQuota(100000) * host.cpu_count * probe.got.den

\* C19: current_limit() returns 100 whenever cpu.max holds max, as the
\* kernel reports it ("max <period>") and as remove_cpu_limit writes it
\* ("max 100000"); so remove_cpu_limit followed by get_current_limit
\* returns 100.
C19_MaxReadsAsHundred ==
    probe.op = "get" =>
        /\ (/\ probe.before.form \in {"max", "max period"}
            /\ probe.impl = "utils" => initialized)
           => probe.got = SomeLimit(Fine(Pct(100)), 1)
        /\ (probe.prev = "remove" /\ probe.ret)
           => probe.got = SomeLimit(Fine(Pct(100)), 1)

-----------------------------------------------------------------------------
(* Properties of the cgroup membership *)

\* C21: add_process(pid) reports success when the pid was accepted into
\* cgroup.procs or when the process has already exited, and reports an
\* error only on a permission failure.
C21_AddProcessResult ==
    (probe.op = "add" /\ probe.errno # "none") =>
        /\ probe.errno \in {"ok", "ESRCH"} => probe.ret
        /\ ~probe.ret => probe.errno = "EACCES"

\* C22: sync_all_processes never adds pid 1 or 2, a process whose name
\* contains a system-essential name, or a root-owned process with an empty
\* cmdline; and every scanned process is counted in exactly one of added,
\* skipped, failed: total = added + skipped + failed.
C22_SyncFiltersAndCounts ==
    sync.done =>
        /\ \A q \in sync.table :
              (\/ q.pid <= 2
               \/ IsSystemProcess(q.name)
               \/ q.username = "root" /\ ~q.cmdline)
              => q.pid \notin sync.tried
        /\ sync.added_pids \subseteq sync.tried
        /\ sync.total = Cardinality(sync.table)
        /\ sync.total = sync.added + sync.skipped + sync.failed

C22_Witness ==
    /\ sync.done
    /\ sync.added >= 1 /\ sync.skipped >= 3
    /\ \E q \in sync.table : q.pid > 2 /\ IsSystemProcess(q.name)

-----------------------------------------------------------------------------
(* Properties of the managed loop of main.py *)

\* C23: in the managed loop any two sync_all_processes invocations are at
\* least 5 seconds apart; a tick that finds the configured
\* process_sync_interval_seconds elapsed since the sync before runs a sync;
\* and a tick that takes the over-limit branch runs a sync in that tick
\* unless one ran less than 5 seconds earlier.
C23_ResyncTiming ==
    /\ \A i \in 1..(Len(monitor.sync_times) - 1) :
          monitor.sync_times[i + 1] - monitor.sync_times[i] >= EmergencyDebounce
    /\ monitor.tick.at # None =>
          /\ monitor.tick.elapsed >= monitor.process_sync_interval_seconds
               => (monitor.tick.periodic \/ monitor.tick.emergency)
          /\ monitor.tick.violation
               => \/ monitor.tick.periodic \/ monitor.tick.emergency
                  \/ monitor.tick.elapsed < EmergencyDebounce

\* C24: a tick takes the over-limit branch exactly when the observed CPU
\* exceeds the limit read back from the actuator plus the tolerance, and
\* that branch neither writes cpu.max nor changes the limit.
C24_ToleranceViolation ==
    monitor.tick.at # None =>
        /\ monitor.tick.violation
             <=> (monitor.tick.current_cpu * monitor.tick.current_limit.den
                    > monitor.tick.current_limit.num
                      + cpu_limit_tolerance_percent
                          * monitor.tick.current_limit.den)
        /\ (monitor.tick.violation /\ ~monitor.tick.set_called)
             => cpu_max = monitor.tick.file_before

\* C25: a tick that raises is abandoned with an error record written and
\* the loop goes on; the monitor task ends only on shutdown.
C25_LoopSurvivesErrors ==
    /\ monitor.tick.error => monitor.tick.error_logged
    /\ monitor.managed => (monitor.task = "running" \/ monitor.shut_down)

\* C26: once the service has shut down the cgroup is torn down: no member
\* is left in it and its directory is gone.
C26_TeardownOnShutdown ==
    monitor.shut_down => (~cgroup_dir /\ cgroup_procs = {})

-----------------------------------------------------------------------------
(* Properties of the core loop under stop() *)

\* C27: stop() ends the loop task only between two ticks: the task is
\* cancelled while it waits for the next sample, never after a sample was
\* taken and before that tick's monitoring row was handled.
C27_StopBetweenTicks ==
    sched.task = "done" => sched.stopped_at \in {"sleep", "collect"}

\* C29: a tick that is past its adjust and log steps has written a
\* schedule_logs row exactly when its write to cpu.max succeeded, and
\* _current_cpu_limit and _last_adjustment_time differ from what the tick
\* found only when its write succeeded.
C29_RecordIffWritten ==
    /\ (sched.tick.sampled /\ (sched.pc \in {"save", "sleep"}
                                \/ sched.task = "done"))
         => (sched.tick.logged <=> sched.tick.wrote)
    /\ (sched.tick.sampled
         /\ (current_cpu_limit # sched.tick.before
               \/ last_adjustment_time # sched.tick.before_adj))
         => sched.tick.wrote

-----------------------------------------------------------------------------
(* Properties of the configuration API *)

\* C28: the stored configuration has every value inside its documented
\* range (0 <= min <= max <= 100, average 0..100, window 1..48 hours,
\* sampling interval 1..60 seconds, both safety factors 0.5..1.0, startup
\* threshold 1..50 %), and a request answered with 400 leaves the stored
\* configuration as it found it.
C28_StoredConfigInRange ==
    /\ 0 <= stored.config.min_load_percent
    /\ stored.config.min_load_percent <= stored.config.max_load_percent
    /\ stored.config.max_load_percent <= 100
    /\ stored.config.avg_load_limit_percent \in 0..100
    /\ stored.config.rolling_window_hours \in 1..48
    /\ stored.config.metrics_interval_seconds \in 1..60
    /\ stored.config.safety_factor \in 50..100
    /\ stored.config.startup_safety_factor \in 50..100
    /\ stored.config.startup_data_threshold_percent \in 1..50
    /\ stored.status_code = 400 => stored.config = stored.before

-----------------------------------------------------------------------------
(* Properties of the scheduler status *)

-----------------------------------------------------------------------------
(* Properties of the lookahead solver *)

\* The lookahead path has just answered for the current table: only that
\* path stores the cache, stamped with the current instant
LookaheadSolvedNow == cache_timestamp # None /\ cache_timestamp = now

\* The window one adjust_step later, the step filled with samples of the
\* returned value: the rows get_metrics_in_window still selects then, plus
\* adjust_step samples of safe_limit_cache
FutureKept == MetricsInWindow(metrics_history, now + adjust_step)

FutureSum == 100 * SumCpu(FutureKept) + adjust_step * safe_limit_cache

FutureCount == Len(FutureKept) + adjust_step

\* one sample per sampling period over the whole window
WindowFull ==
    /\ Len(metrics_history) = rolling_window + 1
    /\ metrics_history[1].ts = now - rolling_window

NotRaisedByLowerClamp ==
    ComputeSafeCpuLimit(metrics_history, now, time_slots).raw >= min_load_percent

SmallEpsilon == Pct(1)

OneSampleWeight == Pct(100)

WindowNotFull ==
    /\ metrics_history # <<>>
    /\ metrics_history[1].ts > now - (rolling_window - adjust_step)

\* What the lookahead formula gives when nothing is taken as leaving: the
\* sum of all samples of the window, one sampling period each, charged
WholeWindowCharged ==
    LET metrics == MetricsInWindow(metrics_history, now)
        actual  == now - metrics[1].ts
    IN  Max(0, MaxNextStep(1, SumCpu(metrics), 1, actual)
                 - TimeSlotReservation(time_slots, now))

-----------------------------------------------------------------------------
(* Properties of the windows under arbitrary timestamps *)

\* C33: a push older than the oldest entry is refused, so after any
\* sequence of pushes the entries of the average window are sorted by
\* timestamp.
C33_EntriesSortedByTimestamp ==
    \A i \in 1..Len(data_points), j \in 1..Len(data_points) :
        i < j => data_points[i].ts <= data_points[j].ts

\* C34: after every update at time now each closed span started after
\* now - H_peak and lasts more than 0 and at most H_peak seconds, and the
\* span an update closes is among the closed spans after that update (a
\* burst longer than H_peak that has just ended is still counted).
C34_EvictAndCapBeforeTransition ==
    [][now' # now =>
         /\ \A i \in 1..Len(peak_periods') :
               /\ peak_periods'[i].start_time > now' - peak_window_seconds
               /\ peak_periods'[i].duration > 0
               /\ peak_periods'[i].duration <= peak_window_seconds
         /\ (probe'.arg < limits_peak_threshold /\ current_peak_start # None)
               => \E i \in 1..Len(peak_periods') :
                     peak_periods'[i].start_time + peak_periods'[i].duration
                        = now']_vars

-----------------------------------------------------------------------------
(* Properties of the solver under configuration changes *)

-----------------------------------------------------------------------------
(* Properties of concurrent reservation requests *)

\* C36: however create_reservation calls running at the same time
\* interleave, no two enabled reservations in the table have overlapping
\* closed ranges [start, end].
C36_NoOverlapUnderInterleaving ==
    \A r, o \in reservations :
        (r.id # o.id /\ r.enabled /\ o.enabled) =>
            ~(/\ FromIsoFormat(r.start_time).instant
                   <= FromIsoFormat(o.end_time).instant
              /\ FromIsoFormat(o.start_time).instant
                   <= FromIsoFormat(r.end_time).instant)

-----------------------------------------------------------------------------
(* Properties of the loop's view of its actuator *)

\* C37: after every tick whose actuator write succeeded, the loop's
\* current limit is the percentage the actuator wrote, that is the value
\* left by the clamp of set_cpu_limit.
C37_LimitIsWhatWasWritten ==
    last.wrote => Fine(current_cpu_limit) = cgroup_limit

-----------------------------------------------------------------------------
(* Properties of the monitor loop's actuator step *)

-----------------------------------------------------------------------------
(* Properties of the loop after a failed actuator initialisation *)

\* C39: a started loop whose actuator is not initialised (its
\* initialisation at startup failed) stays observe-only: no tick
\* initialises the cgroup and no tick writes cpu.max, whatever the
\* machine allows by then.
C39_ObserveOnlyForGood ==
    [][(sched.running /\ ~initialized /\ now' # now)
         => (~initialized' /\ ~last'.wrote)]_vars

-----------------------------------------------------------------------------
(* Properties of the disk and network rates *)

\* the rate is (counter - previous reading) / (time since that reading)
RateOver(rate, reading, before, at) ==
    rate.num * (at - before.at) = (reading.value - before.value) * rate.den

\* C40: at a sample taken a positive time after the previous reading of a
\* counter, the rate reported for that counter is the counter's advance
\* since that reading divided by the time since that reading, for the disk
\* and for the network counter, whichever of the two are enabled.
C40_RateOverOwnInterval ==
    sampler.sample.done =>
      /\ (/\ sampler.enable_disk
          /\ sampler.sample.disk_before.some
          /\ sampler.sample.at > sampler.sample.disk_before.at)
           => RateOver(sampler.sample.disk_io_read, sampler.disk_reading,
                       sampler.sample.disk_before, sampler.sample.at)
      /\ (/\ sampler.enable_network
          /\ sampler.sample.network_before.some
          /\ sampler.sample.at > sampler.sample.network_before.at)
           => RateOver(sampler.sample.network_in, sampler.network_reading,
                       sampler.sample.network_before, sampler.sample.at)

====
